---- MODULE Spec2Model ----
(***************************************************************************)
(* Model of the margarita property-discovery application: the caption      *)
(* extractor, the discovery pipeline (Pass A dedup, geocoding), and the    *)
(* AutoDiscovery reconciliation loop (Pass B).                             *)
(*                                                                         *)
(* Conventions                                                             *)
(*   - an optional numeric field that is absent (undefined) is 0: the code *)
(*     tests these fields by truthiness, so undefined and 0 behave alike;  *)
(*   - coordinates are integers, degrees * 10^4 (10.9970 -> 109970);       *)
(*   - a caption is a sequence of one-character strings.                   *)
(***************************************************************************)
EXTENDS Integers, Sequences, FiniteSets, TLC

VARIABLES
    \* ---- runPropertyDiscovery (discoveryService) ----
    dStage,              \* position of the async function
    postCount,           \* partialProperties.length
    uniqueProperties,    \* output of deduplicateProperties
    geocodedProperties,  \* geocodeProperties' accumulator `geocoded`
    analyzedProperties,  \* the list handed to analyzeZones / estimatePrices
    progressLog,         \* the DiscoveryProgress events emitted so far
    \* ---- deduplicateProperties applied to a batch ----
    dedupIn, dedupOut, dedupDone,
    \* ---- App / AutoDiscovery ----
    properties,          \* App state `properties` (the corpus)
    pendingQueue,        \* AutoDiscovery state `pendingQueue`
    isRunning,           \* AutoDiscovery state `isRunning`
    inflight,            \* discoverNext calls awaiting runPropertyDiscovery,
                         \* each with the props its closure captured
    cur,                 \* the discoverNext whose loop is running or has just
                         \* finished
    passCount,           \* discoverNext calls started so far
    \* ---- extractPropertyInfoLocal applied to a caption ----
    postCaption, extraction, extracted,
    \* ---- a pure function of the services applied to its arguments ----
    args,                \* the arguments of the call
    returned,            \* what the call returned
    called               \* whether the call has been made

discVars == <<dStage, postCount, uniqueProperties, geocodedProperties,
              analyzedProperties, progressLog>>
dedupVars == <<dedupIn, dedupOut, dedupDone>>
appVars == <<properties, pendingQueue, isRunning, inflight, cur, passCount>>
extractVars == <<postCaption, extraction, extracted>>
callVars == <<args, returned, called>>
vars == <<discVars, dedupVars, appVars, extractVars, callVars>>

\* ------------------------------------------------------------------------
\* Bounds of the model
\* ------------------------------------------------------------------------
MaxPosts == 2
MaxDedupBatch == 3
MaxBatch == 2        \* listings in one result of the discovery loop
MaxCorpus == 2       \* entries of `properties`
MaxInFlight == 2     \* discoverNext calls awaiting at a time
MaxPasses == 2       \* discoverNext calls in a behaviour
MaxFragments == 3    \* fragments in a caption
MaxDetailFragments == 2  \* detail fragments after the accepted prefix
MaxAnalyzed == 3     \* listings handed to analyzeZones

\* ------------------------------------------------------------------------
\* Small helpers
\* ------------------------------------------------------------------------
Range(s) == {s[i] : i \in DOMAIN s}

SeqsUpTo(S, n) == UNION {[1..k -> S] : k \in 0..n}

Abs(x) == IF x < 0 THEN -x ELSE x

\* String.prototype.toLowerCase on the zone names the model uses.
ToLowerCase(s) ==
    CASE s = "Pampatar" -> "pampatar"
      [] s = "Porlamar" -> "porlamar"
      [] s = "Sambil" -> "sambil"
      [] s = "El Morro" -> "el morro"
      [] s = "Isla de Margarita" -> "isla de margarita"
      [] s = "PAMPATAR" -> "pampatar"
      [] OTHER -> s

\* ------------------------------------------------------------------------
\* geocodingService.ts
\* ------------------------------------------------------------------------
MARGARITA_BOUNDS == [minLat |-> 108500, maxLat |-> 112000,
                     minLon |-> -640500, maxLon |-> -637000]

\* KNOWN_ZONES: zone name -> the two-element array written in the source,
\* in the order written there (first element, second element).
KNOWN_ZONES ==
    [z \in {"Porlamar", "Pampatar", "Juan Griego", "La Asunción",
            "Playa El Agua", "El Yaque", "Playa Parguito", "Bella Vista",
            "Costa Azul", "Jorge Coll", "La Caracola", "Los Robles",
            "El Valle", "Guacuco", "Manzanillo", "Playa El Angel",
            "Isla de Margarita"} |->
        CASE z = "Porlamar" -> <<109580, -638520>>
          [] z = "Pampatar" -> <<109970, -637975>>
          [] z = "Juan Griego" -> <<110850, -639690>>
          [] z = "La Asunción" -> <<110333, -638628>>
          [] z = "Playa El Agua" -> <<111455, -638630>>
          [] z = "El Yaque" -> <<109023, -639616>>
          [] z = "Playa Parguito" -> <<111350, -638510>>
          [] z = "Bella Vista" -> <<109660, -638570>>
          [] z = "Costa Azul" -> <<109772, -638229>>
          [] z = "Jorge Coll" -> <<109991, -638228>>
          [] z = "La Caracola" -> <<109580, -638491>>
          [] z = "Los Robles" -> <<109880, -638310>>
          [] z = "El Valle" -> <<109850, -638850>>
          [] z = "Guacuco" -> <<110502, -638133>>
          [] z = "Manzanillo" -> <<111575, -638920>>
          [] z = "Playa El Angel" -> <<109880, -638330>>
          [] z = "Isla de Margarita" -> <<110000, -639000>>]

IsKnownZone(zone) == zone # "" /\ zone \in DOMAIN KNOWN_ZONES

isWithinMargarita(lat, lng) ==
    /\ lat >= MARGARITA_BOUNDS.minLat /\ lat <= MARGARITA_BOUNDS.maxLat
    /\ lng >= MARGARITA_BOUNDS.minLon /\ lng <= MARGARITA_BOUNDS.maxLon

\* What the Nominatim lookup can hand back to geocodeAddress: no result (or
\* a failed request, which the catch turns into null), or the first hit of
\* the bounded query or of the unbounded fallback query.
NoCoords == [found |-> FALSE, lat |-> 0, lon |-> 0]

NominatimOutcomes ==
    { NoCoords,
      [found |-> TRUE, lat |-> 109962, lon |-> -638140],    \* on the island
      [found |-> TRUE, lat |-> 104800, lon |-> -669036] }   \* mainland hit

\* geocodeAddress(address, zone); `external` is the Nominatim outcome.
geocodeAddress(zone, external) ==
    IF IsKnownZone(zone)
    THEN LET lon == KNOWN_ZONES[zone][1]      \* const [lon, lat] = KNOWN_ZONES[zone]
             lat == KNOWN_ZONES[zone][2]
         IN  [found |-> TRUE, lat |-> lat, lon |-> lon]
    ELSE external

\* geocodeProperty(property)
geocodeProperty(property, external) ==
    LET coords == geocodeAddress(property.zone, external) IN
    IF coords.found
    THEN [property EXCEPT !.latitude = coords.lat, !.longitude = coords.lon]
    ELSE IF IsKnownZone(property.zone)
    THEN LET lon == KNOWN_ZONES[property.zone][1]
             lat == KNOWN_ZONES[property.zone][2]
         IN  [property EXCEPT !.latitude = lat, !.longitude = lon]
    ELSE [property EXCEPT !.latitude = 110000, !.longitude = -638500]

\* ------------------------------------------------------------------------
\* discoveryService: deduplicateProperties (Pass A)
\* ------------------------------------------------------------------------
\* The composite key.  price || 'no-price', bedrooms || 0, bathrooms || 0:
\* an absent field is 0 in the model, and 0 stands for the substituted value.
DedupKey(property) ==
    <<property.price, ToLowerCase(property.zone), property.type,
      property.bedrooms, property.bathrooms>>

IsBetterQualityOrEqual(property, existing) ==
    property.qualityScore >= existing.qualityScore

\* (property.qualityScore || 0) > (existing.qualityScore || 0)
IsBetterQuality(property, existing) ==
    property.qualityScore > existing.qualityScore

\* Position of `key` in the Map (a sequence in insertion order), 0 if absent.
MapIndex(uniqueMap, key) ==
    IF \E k \in DOMAIN uniqueMap : uniqueMap[k].key = key
    THEN CHOOSE k \in DOMAIN uniqueMap : uniqueMap[k].key = key
    ELSE 0

RECURSIVE DedupLoop(_, _, _)
DedupLoop(batch, i, uniqueMap) ==
    IF i > Len(batch) THEN uniqueMap
    ELSE LET property == batch[i]
             key == DedupKey(property)
             pos == MapIndex(uniqueMap, key)
         IN  IF pos = 0
             THEN DedupLoop(batch, i + 1,
                            Append(uniqueMap, [key |-> key, value |-> property]))
             ELSE IF IsBetterQuality(property, uniqueMap[pos].value)
             THEN DedupLoop(batch, i + 1,
                            [uniqueMap EXCEPT ![pos].value = property])
             ELSE DedupLoop(batch, i + 1, uniqueMap)

deduplicateProperties(batch) ==
    LET uniqueMap == DedupLoop(batch, 1, <<>>)
    IN  [k \in DOMAIN uniqueMap |-> uniqueMap[k].value]

\* ------------------------------------------------------------------------
\* geminiService.ts: extractPropertyInfoLocal
\* A caption is a sequence of one-character strings.
\* ------------------------------------------------------------------------
LowerMap == ("A" :> "a") @@ ("B" :> "b") @@ ("C" :> "c") @@ ("D" :> "d") @@ ("E" :> "e") @@ ("F" :> "f") @@ ("G" :> "g") @@ ("H" :> "h") @@ ("I" :> "i") @@ ("J" :> "j") @@ ("K" :> "k") @@ ("L" :> "l") @@ ("M" :> "m")
            @@ ("N" :> "n") @@ ("O" :> "o") @@ ("P" :> "p") @@ ("Q" :> "q") @@ ("R" :> "r") @@ ("S" :> "s") @@ ("T" :> "t") @@ ("U" :> "u") @@ ("V" :> "v") @@ ("W" :> "w") @@ ("X" :> "x") @@ ("Y" :> "y") @@ ("Z" :> "z")

AccentedLower == ("Á" :> "á") @@ ("É" :> "é") @@ ("Í" :> "í") @@ ("Ó" :> "ó")
                 @@ ("Ú" :> "ú") @@ ("Ñ" :> "ñ") @@ ("Ü" :> "ü")

\* String.prototype.toLowerCase, character by character.
LowerChar(c) ==
    IF c \in DOMAIN LowerMap THEN LowerMap[c]
    ELSE IF c \in DOMAIN AccentedLower THEN AccentedLower[c]
    ELSE c

LowerText(s) == [i \in DOMAIN s |-> LowerChar(s[i])]

\* String.prototype.includes
Includes(s, kw) ==
    \E i \in 1..(Len(s) - Len(kw) + 1) :
        \A j \in 1..Len(kw) : s[i + j - 1] = kw[j]

IsDigit(c) == c \in {"0", "1", "2", "3", "4", "5", "6", "7", "8", "9"}

\* the character class [\d.,]
IsNumChar(c) == IsDigit(c) \/ c = "." \/ c = ","

\* \s
IsSpace(c) == c = " "

\* the character class [:\s]
IsColonOrSpace(c) == c = ":" \/ IsSpace(c)

\* Membership in the character classes the patterns repeat.
InClass(class, c) ==
    CASE class = "space" -> IsSpace(c)
      [] class = "number" -> IsNumChar(c)
      [] class = "digit" -> IsDigit(c)
      [] class = "colonOrSpace" -> IsColonOrSpace(c)

\* Greedy repetition of a character class from position i: the position
\* just past the longest run.
RunEnd(s, i, class) ==
    CHOOSE j \in i..(Len(s) + 1) :
        /\ \A k \in i..(j - 1) : InClass(class, s[k])
        /\ (j = Len(s) + 1 \/ ~InClass(class, s[j]))

\* A literal word of a case-insensitive pattern at position i (w lowercase).
WordAt(s, i, w) ==
    /\ i >= 1
    /\ i + Len(w) - 1 <= Len(s)
    /\ \A j \in 1..Len(w) : LowerChar(s[i + j - 1]) = w[j]

SaleKeywords ==
    { <<"v", "e", "n", "t", "a">>,
      <<"v", "e", "n", "d", "o">>,
      <<"s", "e", " ", "v", "e", "n", "d", "e">>,
      <<"e", "n", " ", "v", "e", "n", "t", "a">>,
      <<"p", "r", "e", "c", "i", "o">>,
      <<"o", "p", "o", "r", "t", "u", "n", "i", "d", "a", "d">>,
      <<"i", "n", "v", "e", "r", "s", "i", "ó", "n">>,
      <<"i", "n", "v", "e", "r", "s", "i", "o", "n">> }

\* /\$\s*\d/.test(caption)
HasDollarNumber(caption) ==
    \E i \in DOMAIN caption :
        /\ caption[i] = "$"
        /\ LET a == RunEnd(caption, i + 1, "space")
           IN  a <= Len(caption) /\ IsDigit(caption[a])

isSale(caption) ==
    \/ \E kw \in SaleKeywords : Includes(LowerText(caption), kw)
    \/ HasDollarNumber(caption)

RentalKeywordsOfFilter ==
    { <<"a", "l", "q", "u", "i", "l", "e", "r">>,
      <<"r", "e", "n", "t", "a">>,
      <<"s", "e", " ", "a", "l", "q", "u", "i", "l", "a">> }

isRental(caption) ==
    \E kw \in RentalKeywordsOfFilter : Includes(LowerText(caption), kw)

PassesSaleFilterUnlessBoth(caption) == ~(~isSale(caption) /\ isRental(caption))

\* if (!isSale || isRental) return null
PassesSaleFilter(caption) == ~(~isSale(caption) \/ isRental(caption))

propertyKeywords ==
    { <<"c", "a", "s", "a">>,
      <<"a", "p", "a", "r", "t", "a", "m", "e", "n", "t", "o">>,
      <<"a", "p", "t", "o">>,
      <<"t", "e", "r", "r", "e", "n", "o">>,
      <<"l", "o", "c", "a", "l">>,
      <<"q", "u", "i", "n", "t", "a">>,
      <<"t", "o", "w", "n", "h", "o", "u", "s", "e">>,
      <<"p", "e", "n", "t", "h", "o", "u", "s", "e">>,
      <<"h", "a", "b", "i", "t", "a", "c", "i", "o", "n">>,
      <<"i", "n", "m", "u", "e", "b", "l", "e">>,
      <<"p", "r", "o", "p", "i", "e", "d", "a", "d">>,
      <<"v", "i", "v", "i", "e", "n", "d", "a">> }

isProperty(caption) ==
    \E kw \in propertyKeywords : Includes(LowerText(caption), kw)

\* ---- the four price patterns ----
NoMatch == [ok |-> FALSE, from |-> 0, to |-> 0, group2 |-> ""]

MultiplierAt(s, i) ==
    IF WordAt(s, i, <<"m", "i", "l">>) THEN "mil"
    ELSE IF WordAt(s, i, <<"k">>) THEN "k"
    ELSE ""

CurrencyWords ==
    { <<"u", "s", "d">>,
      <<"d", "o", "l", "a", "r", "e", "s">>,
      <<"d", "ó", "l", "a", "r", "e", "s">>,
      <<"d", "o", "l", "l", "a", "r", "s">> }

CurrencyOrDollar ==
    { <<"u", "s", "d">>,
      <<"d", "o", "l", "a", "r", "e", "s">>,
      <<"d", "ó", "l", "a", "r", "e", "s">>,
      <<"$">> }

\* A match of pattern k that starts at position i: the span from..to-1 of
\* group 1 and the text of group 2 as far as the code reads it ("mil", "k"
\* or anything else).
\*   1  /\$\s*([\d.,]+)\s*(mil|k)?/i
\*   2  /([\d.,]+)\s*(usd|dolares|dólares|dollars)/i
\*   3  /([\d.,]+)\s*(mil|k)\s*(usd|dolares|dólares|\$)/i
\*   4  /precio[:\s]*([\d.,]+)\s*(usd|\$)?/i
PatternAt(k, s, i) ==
    CASE k = 1 ->
            IF s[i] # "$" THEN NoMatch
            ELSE LET a == RunEnd(s, i + 1, "space")
                     b == RunEnd(s, a, "number")
                     c == RunEnd(s, b, "space")
                 IN  IF b = a THEN NoMatch
                     ELSE [ok |-> TRUE, from |-> a, to |-> b,
                           group2 |-> MultiplierAt(s, c)]
      [] k = 2 ->
            LET b == RunEnd(s, i, "number")
                c == RunEnd(s, b, "space")
            IN  IF b = i \/ ~(\E w \in CurrencyWords : WordAt(s, c, w))
                THEN NoMatch
                ELSE [ok |-> TRUE, from |-> i, to |-> b, group2 |-> "currency"]
      [] k = 3 ->
            LET b == RunEnd(s, i, "number")
                c == RunEnd(s, b, "space")
                m == MultiplierAt(s, c)
                d == RunEnd(s, c + (IF m = "mil" THEN 3 ELSE 1), "space")
            IN  IF b = i \/ m = "" \/ ~(\E w \in CurrencyOrDollar : WordAt(s, d, w))
                THEN NoMatch
                ELSE [ok |-> TRUE, from |-> i, to |-> b, group2 |-> m]
      [] k = 4 ->
            IF ~WordAt(s, i, <<"p", "r", "e", "c", "i", "o">>) THEN NoMatch
            ELSE LET a == RunEnd(s, i + 6, "colonOrSpace")
                     b == RunEnd(s, a, "number")
                 IN  IF b = a THEN NoMatch
                     ELSE [ok |-> TRUE, from |-> a, to |-> b, group2 |-> "currency"]

\* caption.match(pattern): the leftmost match.
FirstMatch(k, s) ==
    IF \E i \in DOMAIN s : PatternAt(k, s, i).ok
    THEN LET i == CHOOSE i \in DOMAIN s :
                     /\ PatternAt(k, s, i).ok
                     /\ \A j \in 1..(i - 1) : ~PatternAt(k, s, j).ok
         IN  PatternAt(k, s, i)
    ELSE NoMatch

DigitValue == ("0" :> 0) @@ ("1" :> 1) @@ ("2" :> 2) @@ ("3" :> 3) @@ ("4" :> 4)
              @@ ("5" :> 5) @@ ("6" :> 6) @@ ("7" :> 7) @@ ("8" :> 8) @@ ("9" :> 9)

\* parseInt(match[1].replace(/[.,]/g, '')): the separators are dropped and
\* the digits read in base ten; with no digit the result is NaN, which the
\* model writes -1 (NaN fails every comparison of the range test, and so
\* does -1, also after the multiplication by 1000).
RECURSIVE ParsePrice(_, _, _, _)
ParsePrice(s, from, to, acc) ==
    IF from >= to THEN acc
    ELSE IF IsDigit(s[from])
    THEN ParsePrice(s, from + 1, to, (IF acc < 0 THEN 0 ELSE acc) * 10 + DigitValue[s[from]])
    ELSE ParsePrice(s, from + 1, to, acc)

\* The value of a match after `price *= 1000` for "mil" / "k".
ResolvedPrice(s, m) ==
    LET price == ParsePrice(s, m.from, m.to, -1)
    IN  IF m.group2 = "mil" \/ m.group2 = "k" THEN price * 1000 ELSE price

PriceInRangeNoFloor(price) == price <= 10000000

\* price >= 1000 && price <= 10000000
PriceInRange(price) == price >= 1000 /\ price <= 10000000

\* for (const pattern of pricePatterns) { ... }: the value of `price` after
\* the loop, entered at pattern k with the given price; null is 0.
RECURSIVE PriceLoop(_, _, _)
PriceLoop(caption, k, price) ==
    IF k > 4 THEN price
    ELSE LET m == FirstMatch(k, caption)
         IN  IF ~m.ok THEN PriceLoop(caption, k + 1, price)
             ELSE IF PriceInRange(ResolvedPrice(caption, m))
             THEN ResolvedPrice(caption, m)
             ELSE PriceLoop(caption, k + 1, 0)

\* ---- zone detection ----
zoneKeywords ==
    << [key |-> <<"p", "o", "r", "l", "a", "m", "a", "r">>, name |-> "Porlamar"],
       [key |-> <<"s", "a", "m", "b", "i", "l">>, name |-> "Sambil"],
       [key |-> <<"c", "a", "r", "a", "c", "o", "l", "a">>, name |-> "La Caracola"],
       [key |-> <<"r", "a", "t", "t", "a", "n">>, name |-> "Rattan Plaza"],
       [key |-> <<"b", "e", "l", "l", "a", " ", "v", "i", "s", "t", "a">>, name |-> "Bella Vista"],
       [key |-> <<"c", "o", "s", "t", "a", " ", "a", "z", "u", "l">>, name |-> "Costa Azul"],
       [key |-> <<"l", "o", "s", " ", "r", "o", "b", "l", "e", "s">>, name |-> "Los Robles"],
       [key |-> <<"e", "l", " ", "m", "o", "r", "r", "o">>, name |-> "El Morro"],
       [key |-> <<"p", "i", "e", "d", "r", "a", "s">>, name |-> "Piedras"],
       [key |-> <<"c", "o", "s", "t", "a", " ", "m", "a", "r", "g", "a", "r", "i", "t", "a">>, name |-> "Costa Margarita"],
       [key |-> <<"j", "o", "r", "g", "e", " ", "c", "o", "l", "l">>, name |-> "Jorge Coll"],
       [key |-> <<"v", "i", "l", "l", "a", " ", "r", "o", "s", "a">>, name |-> "Villa Rosa"],
       [key |-> <<"l", "a", "s", " ", "g", "a", "r", "z", "a", "s">>, name |-> "Las Garzas"],
       [key |-> <<"l", "a", " ", "a", "r", "b", "o", "l", "e", "d", "a">>, name |-> "La Arboleda"],
       [key |-> <<"l", "o", "s", " ", "c", "o", "c", "o", "s">>, name |-> "Los Cocos"],
       [key |-> <<"p", "l", "a", "y", "a", " ", "e", "l", " ", "a", "n", "g", "e", "l">>, name |-> "Playa El Angel"],
       [key |-> <<"e", "l", " ", "a", "n", "g", "e", "l">>, name |-> "Playa El Angel"],
       [key |-> <<"p", "a", "m", "p", "a", "t", "a", "r">>, name |-> "Pampatar"],
       [key |-> <<"g", "u", "a", "c", "u", "c", "o">>, name |-> "Guacuco"],
       [key |-> <<"p", "a", "r", "a", "g", "u", "a", "c", "h", "i">>, name |-> "Paraguachí"],
       [key |-> <<"p", "a", "r", "a", "g", "u", "a", "c", "h", "í">>, name |-> "Paraguachí"],
       [key |-> <<"e", "l", " ", "c", "a", "r", "d", "ó", "n">>, name |-> "El Cardón"],
       [key |-> <<"e", "l", " ", "c", "a", "r", "d", "o", "n">>, name |-> "El Cardón"],
       [key |-> <<"p", "l", "a", "y", "a", " ", "c", "a", "r", "i", "b", "e">>, name |-> "Playa Caribe"],
       [key |-> <<"p", "l", "a", "y", "a", " ", "e", "l", " ", "a", "g", "u", "a">>, name |-> "Playa El Agua"],
       [key |-> <<"e", "l", " ", "a", "g", "u", "a">>, name |-> "Playa El Agua"],
       [key |-> <<"p", "a", "r", "g", "u", "i", "t", "o">>, name |-> "Playa Parguito"],
       [key |-> <<"p", "u", "e", "r", "t", "o", " ", "c", "r", "u", "z">>, name |-> "Puerto Cruz"],
       [key |-> <<"z", "a", "r", "a", "g", "o", "z", "a">>, name |-> "Playa Zaragoza"],
       [key |-> <<"e", "l", " ", "h", "u", "m", "o">>, name |-> "Playa El Humo"],
       [key |-> <<"m", "a", "n", "z", "a", "n", "i", "l", "l", "o">>, name |-> "Manzanillo"],
       [key |-> <<"p", "e", "d", "r", "o", " ", "g", "o", "n", "z", "a", "l", "e", "z">>, name |-> "Pedro González"],
       [key |-> <<"p", "e", "d", "r", "o", " ", "g", "o", "n", "z", "á", "l", "e", "z">>, name |-> "Pedro González"],
       [key |-> <<"p", "u", "e", "r", "t", "o", " ", "v", "i", "e", "j", "o">>, name |-> "Playa Puerto Viejo"],
       [key |-> <<"l", "a", " ", "a", "s", "u", "n", "c", "i", "ó", "n">>, name |-> "La Asunción"],
       [key |-> <<"a", "s", "u", "n", "c", "i", "o", "n">>, name |-> "La Asunción"],
       [key |-> <<"e", "l", " ", "v", "a", "l", "l", "e">>, name |-> "El Valle"],
       [key |-> <<"s", "a", "n", "t", "a", " ", "a", "n", "a">>, name |-> "Santa Ana"],
       [key |-> <<"t", "a", "c", "a", "r", "i", "g", "u", "a">>, name |-> "Tacarigua"],
       [key |-> <<"j", "u", "a", "n", " ", "g", "r", "i", "e", "g", "o">>, name |-> "Juan Griego"],
       [key |-> <<"s", "a", "n", " ", "j", "u", "a", "n", " ", "b", "a", "u", "t", "i", "s", "t", "a">>, name |-> "San Juan Bautista"],
       [key |-> <<"l", "a", " ", "g", "a", "l", "e", "r", "a">>, name |-> "La Galera"],
       [key |-> <<"e", "l", " ", "y", "a", "q", "u", "e">>, name |-> "El Yaque"],
       [key |-> <<"y", "a", "q", "u", "e">>, name |-> "El Yaque"],
       [key |-> <<"b", "o", "c", "a", " ", "d", "e", " ", "r", "i", "o">>, name |-> "Boca de Río"],
       [key |-> <<"b", "o", "c", "a", " ", "d", "e", " ", "r", "í", "o">>, name |-> "Boca de Río"],
       [key |-> <<"b", "o", "c", "a", " ", "d", "e", "l", " ", "p", "o", "z", "o">>, name |-> "Boca del Pozo"],
       [key |-> <<"s", "a", "n", " ", "f", "r", "a", "n", "c", "i", "s", "c", "o">>, name |-> "San Francisco"],
       [key |-> <<"m", "a", "c", "a", "n", "a", "o">>, name |-> "Boca de Río"],
       [key |-> <<"m", "a", "r", "g", "a", "r", "i", "t", "a">>, name |-> "Isla de Margarita"],
       [key |-> <<"n", "u", "e", "v", "a", " ", "e", "s", "p", "a", "r", "t", "a">>, name |-> "Nueva Esparta"] >>

AccentMap == ("á" :> "a") @@ ("é" :> "e") @@ ("í" :> "i") @@ ("ó" :> "o")
             @@ ("ú" :> "u") @@ ("ñ" :> "n") @@ ("ü" :> "u")
             @@ ("Á" :> "A") @@ ("É" :> "E") @@ ("Í" :> "I") @@ ("Ó" :> "O")
             @@ ("Ú" :> "U") @@ ("Ñ" :> "N") @@ ("Ü" :> "U")

\* str.normalize('NFD').replace(/[\u0300-\u036f]/g, '').toLowerCase()
normalize(str) ==
    [i \in DOMAIN str |->
        LowerChar(IF str[i] \in DOMAIN AccentMap THEN AccentMap[str[i]] ELSE str[i])]

RECURSIVE ZoneLoopLastWins(_, _, _)
ZoneLoopLastWins(captionNormalized, i, zone) ==
    IF i > Len(zoneKeywords) THEN zone
    ELSE IF Includes(captionNormalized, normalize(zoneKeywords[i].key))
    THEN ZoneLoopLastWins(captionNormalized, i + 1, zoneKeywords[i].name)
    ELSE ZoneLoopLastWins(captionNormalized, i + 1, zone)

\* for (const z of zoneKeywords) { ... break }: the value of `zone` after the
\* loop, entered at entry i; null is "".
RECURSIVE ZoneLoop(_, _, _)
ZoneLoop(captionNormalized, i, zone) ==
    IF i > Len(zoneKeywords) THEN zone
    ELSE IF Includes(captionNormalized, normalize(zoneKeywords[i].key))
    THEN zoneKeywords[i].name
    ELSE ZoneLoop(captionNormalized, i + 1, zone)

\* if (!zone) zone = 'Isla de Margarita'
zoneOf(caption) ==
    LET zone == ZoneLoop(normalize(caption), 1, "")
    IN  IF zone = "" THEN "Isla de Margarita" ELSE zone

\* ---- property type ----
IncludesAny(s, words) == \E w \in words : Includes(s, w)

propertyTypeOf(caption) ==
    LET captionLower == LowerText(caption)
    IN  IF IncludesAny(captionLower, {<<"a", "p", "a", "r", "t", "a", "m", "e", "n", "t", "o">>, <<"a", "p", "t", "o">>, <<"p", "e", "n", "t", "h", "o", "u", "s", "e">>})
        THEN "APARTAMENTO"
        ELSE IF IncludesAny(captionLower, {<<"t", "e", "r", "r", "e", "n", "o">>, <<"l", "o", "t", "e">>, <<"p", "a", "r", "c", "e", "l", "a">>})
        THEN "TERRENO"
        ELSE IF IncludesAny(captionLower, {<<"l", "o", "c", "a", "l">>, <<"c", "o", "m", "e", "r", "c", "i", "a", "l">>, <<"o", "f", "i", "c", "i", "n", "a">>})
        THEN "LOCAL_COMERCIAL"
        ELSE "CASA"

\* ---- bedrooms, bathrooms, area: /(\d+)\s*(word|...)/i ----
\* A match that starts at position i: digits, optional spaces, one of the
\* words.
NumberWordAt(s, i, words) ==
    IF ~IsDigit(s[i]) THEN NoMatch
    ELSE LET b == RunEnd(s, i, "digit")
             c == RunEnd(s, b, "space")
         IN  IF \E w \in words : WordAt(s, c, w)
             THEN [ok |-> TRUE, from |-> i, to |-> b, group2 |-> "word"]
             ELSE NoMatch

\* caption.match(pattern): the leftmost match; 0 if none, else parseInt(match[1]).
FirstNumberWord(s, words) ==
    IF \E i \in DOMAIN s : NumberWordAt(s, i, words).ok
    THEN LET i == CHOOSE i \in DOMAIN s :
                     /\ NumberWordAt(s, i, words).ok
                     /\ \A j \in 1..(i - 1) : ~NumberWordAt(s, j, words).ok
         IN  ParsePrice(s, i, NumberWordAt(s, i, words).to, -1)
    ELSE 0

\* (hab|habitacion|habitaciones|dormitorio|cuarto|recámara): the longer
\* alternatives begin with "hab".
BedroomWords == {<<"h", "a", "b">>, <<"d", "o", "r", "m", "i", "t", "o", "r", "i", "o">>, <<"c", "u", "a", "r", "t", "o">>, <<"r", "e", "c", "á", "m", "a", "r", "a">>}

\* h[\/\s]
BedroomShortWords == {<<"h", "/">>, <<"h", " ">>}

\* (baño|baños|b\/|wc)
BathroomWords == {<<"b", "a", "ñ", "o">>, <<"b", "/">>, <<"w", "c">>}

\* (m2|mt2|mts2|mts|metros\s*cuadrados|metros)
AreaWords == {<<"m", "2">>, <<"m", "t", "2">>, <<"m", "t", "s">>, <<"m", "e", "t", "r", "o", "s">>}

\* The loop over bedroomPatterns: a value outside 1..20 is reset to null (0)
\* and the next pattern tried.
bedroomsOf(caption) ==
    LET first == FirstNumberWord(caption, BedroomWords)
        second == FirstNumberWord(caption, BedroomShortWords)
    IN  IF first > 0 /\ first <= 20 THEN first
        ELSE IF second > 0 /\ second <= 20 THEN second
        ELSE 0

bathroomsOf(caption) ==
    LET n == FirstNumberWord(caption, BathroomWords)
    IN  IF n > 0 /\ n <= 10 THEN n ELSE 0

areaOf(caption) ==
    LET n == FirstNumberWord(caption, AreaWords)
    IN  IF n >= 20 /\ n <= 50000 THEN n ELSE 0

\* ---- features ----
\* /vista\s*(al)?\s*mar/i
HasVistaAlMar(s) ==
    \E i \in DOMAIN s :
        /\ WordAt(s, i, <<"v", "i", "s", "t", "a">>)
        /\ LET a == RunEnd(s, i + 5, "space")
           IN  \/ WordAt(s, a, <<"m", "a", "r">>)
               \/ /\ WordAt(s, a, <<"a", "l">>)
                  /\ WordAt(s, RunEnd(s, a + 2, "space"), <<"m", "a", "r">>)

\* /aire\s*acondicionado/i and /cocina\s*equipada/i
HasTwoWords(s, first, second) ==
    \E i \in DOMAIN s :
        /\ WordAt(s, i, first)
        /\ WordAt(s, RunEnd(s, i + Len(first), "space"), second)

\* featurePatterns, in order: whether fp.pattern.test(caption).
FeatureTest(n, caption) ==
    LET s == LowerText(caption)
    IN  CASE n = 1 -> Includes(s, <<"p", "i", "s", "c", "i", "n", "a">>)
          [] n = 2 -> HasVistaAlMar(caption)
          [] n = 3 -> IncludesAny(s, {<<"a", "m", "o", "b", "l", "a", "d", "o">>, <<"a", "m", "o", "b", "l", "a", "d", "a">>, <<"a", "m", "u", "e", "b", "l", "a", "d", "o">>, <<"a", "m", "u", "e", "b", "l", "a", "d", "a">>})
          [] n = 4 -> \/ HasTwoWords(caption, <<"a", "i", "r", "e">>, <<"a", "c", "o", "n", "d", "i", "c", "i", "o", "n", "a", "d", "o">>)
                      \/ IncludesAny(s, {<<"a", "/", "c">>, <<"a", "c">>})
          [] n = 5 -> Includes(s, <<"p", "l", "a", "n", "t", "a">>)
          [] n = 6 -> IncludesAny(s, {<<"e", "s", "t", "a", "c", "i", "o", "n", "a", "m", "i", "e", "n", "t", "o">>, <<"p", "a", "r", "k", "i", "n", "g">>, <<"g", "a", "r", "a", "j", "e">>})
          [] n = 7 -> IncludesAny(s, {<<"s", "e", "g", "u", "r", "i", "d", "a", "d">>, <<"v", "i", "g", "i", "l", "a", "n", "c", "i", "a">>})
          [] n = 8 -> HasTwoWords(caption, <<"c", "o", "c", "i", "n", "a">>, <<"e", "q", "u", "i", "p", "a", "d", "a">>)
          [] n = 9 -> IncludesAny(s, {<<"t", "e", "r", "r", "a", "z", "a">>, <<"b", "a", "l", "c", "ó", "n">>})
          [] n = 10 -> IncludesAny(s, {<<"j", "a", "r", "d", "í", "n">>, <<"j", "a", "r", "d", "i", "n">>})

FeatureNames ==
    << "Piscina", "Vista al Mar", "Amoblado", "Aire Acondicionado",
       "Planta Eléctrica", "Estacionamiento", "Seguridad 24h",
       "Cocina Equipada", "Terraza/Balcón", "Jardín" >>

\* for (const fp of featurePatterns) if (fp.pattern.test(caption)) features.push(fp.name)
RECURSIVE FeatureLoop(_, _, _)
FeatureLoop(caption, n, features) ==
    IF n > Len(FeatureNames) THEN features
    ELSE FeatureLoop(caption, n + 1,
                     IF FeatureTest(n, caption)
                     THEN Append(features, FeatureNames[n])
                     ELSE features)

featuresOf(caption) == FeatureLoop(caption, 1, <<>>)

\* ---- quality score ----
Min(a, b) == IF a <= b THEN a ELSE b

qualityScoreUncapped(price, bedrooms, bathrooms, area, features) ==
    Min(50 + (IF price # 0 THEN 15 ELSE 0)
           + (IF bedrooms # 0 THEN 10 ELSE 0)
           + (IF bathrooms # 0 THEN 5 ELSE 0)
           + (IF area # 0 THEN 10 ELSE 0)
           + Len(features) * 2,
        100)

qualityScoreOf(price, bedrooms, bathrooms, area, features) ==
    Min(50 + (IF price # 0 THEN 15 ELSE 0)
           + (IF bedrooms # 0 THEN 10 ELSE 0)
           + (IF bathrooms # 0 THEN 5 ELSE 0)
           + (IF area # 0 THEN 10 ELSE 0)
           + (IF Len(features) > 0 THEN Min(Len(features) * 2, 10) ELSE 0),
        100)

\* ---- status ----
statusOf(caption) ==
    LET captionLower == LowerText(caption)
    IN  IF IncludesAny(captionLower, {<<"v", "e", "n", "d", "i", "d", "o">>, <<"v", "e", "n", "d", "i", "d", "a">>, <<"s", "o", "l", "d">>, <<"s", "e", " ", "v", "e", "n", "d", "i", "ó">>, <<"y", "a", " ", "s", "e", " ", "v", "e", "n", "d", "i", "ó">>})
        THEN "sold"
        ELSE IF IncludesAny(captionLower, {<<"r", "e", "s", "e", "r", "v", "a", "d", "o">>, <<"r", "e", "s", "e", "r", "v", "a", "d", "a">>, <<"e", "n", " ", "p", "r", "o", "c", "e", "s", "o">>, <<"a", "p", "a", "r", "t", "a", "d", "o">>, <<"a", "p", "a", "r", "t", "a", "d", "a">>})
        THEN "reserved"
        ELSE "available"

\* The result: null with the filter that rejected, or the extraction.
Rejected(filter) == [is_valid |-> FALSE, rejectedBy |-> filter, price_usd |-> 0]

extractPropertyInfoLocal(caption) ==
    IF ~PassesSaleFilter(caption) THEN Rejected("sale")
    ELSE IF ~isProperty(caption) THEN Rejected("property")
    ELSE LET price == PriceLoop(caption, 1, 0)
             bedrooms == bedroomsOf(caption)
             bathrooms == bathroomsOf(caption)
             area == areaOf(caption)
             features == featuresOf(caption)
         IN  IF price <= 0 THEN Rejected("price")
             ELSE [is_valid |-> TRUE, rejectedBy |-> "none", price_usd |-> price,
                   property_type |-> propertyTypeOf(caption),
                   zone |-> zoneOf(caption),
                   bedrooms |-> bedrooms,
                   bathrooms |-> bathrooms,
                   area_m2 |-> area,
                   features |-> features,
                   quality_score |->
                       qualityScoreOf(price, bedrooms, bathrooms, area, features),
                   status |-> statusOf(caption)]

\* ------------------------------------------------------------------------
\* The captions of the model: up to MaxFragments of these fragments, in any
\* order.
\*    1  "Vendo casa "
\*    2  "apto "
\*    3  "oportunidad "
\*    4  "Se alquila "
\*    5  "alquiler "
\*    6  "renta "
\*    7  "$500 "
\*    8  "$85.000 "
\*    9  "$50 mil "
\*   10  "90000 USD "
\*   11  "20 mil usd "
\*   12  "precio: 70000 "
\*   13  "500 usd "
\* ------------------------------------------------------------------------
Fragments ==
    { <<"V", "e", "n", "d", "o", " ", "c", "a", "s", "a", " ">>,
      <<"a", "p", "t", "o", " ">>,
      <<"o", "p", "o", "r", "t", "u", "n", "i", "d", "a", "d", " ">>,
      <<"S", "e", " ", "a", "l", "q", "u", "i", "l", "a", " ">>,
      <<"a", "l", "q", "u", "i", "l", "e", "r", " ">>,
      <<"r", "e", "n", "t", "a", " ">>,
      <<"$", "5", "0", "0", " ">>,
      <<"$", "8", "5", ".", "0", "0", "0", " ">>,
      <<"$", "5", "0", " ", "m", "i", "l", " ">>,
      <<"9", "0", "0", "0", "0", " ", "U", "S", "D", " ">>,
      <<"2", "0", " ", "m", "i", "l", " ", "u", "s", "d", " ">>,
      <<"p", "r", "e", "c", "i", "o", ":", " ", "7", "0", "0", "0", "0", " ">>,
      <<"5", "0", "0", " ", "u", "s", "d", " ">> }

RECURSIVE Concat(_)
Concat(list) == IF list = <<>> THEN <<>> ELSE Head(list) \o Concat(Tail(list))

Captions == {Concat(l) : l \in SeqsUpTo(Fragments, MaxFragments)}

CallIdle ==
    /\ args = <<>>
    /\ returned = <<>>
    /\ called = FALSE

ExtractIdle ==
    /\ postCaption = <<>>
    /\ extraction = Rejected("pending")
    /\ extracted = FALSE


\* Array.prototype.find as an index: the first of the indices that satisfy
\* the predicate, 0 if none does.
FirstIndex(satisfying) ==
    IF satisfying = {} THEN 0
    ELSE CHOOSE k \in satisfying : \A j \in satisfying : k <= j

\* ------------------------------------------------------------------------
\* coordinateService.ts: the zone registry and coordinate resolution.
\* Coordinates are in units of 0.0001 degree; names are sequences of
\* one-character strings.
\* ------------------------------------------------------------------------
MARGARITA_ZONES ==
    << [name |-> <<"P", "o", "r", "l", "a", "m", "a", "r">>,
        lat |-> 109580, lng |-> -638520,
        aliases |-> <<<<"c", "e", "n", "t", "r", "o">>, <<"c", "a", "s", "c", "o", " ", "c", "e", "n", "t", "r", "a", "l">>>>],
       [name |-> <<"P", "a", "m", "p", "a", "t", "a", "r">>,
        lat |-> 109970, lng |-> -637975,
        aliases |-> <<<<"c", "a", "s", "t", "i", "l", "l", "o">>>>],
       [name |-> <<"J", "u", "a", "n", " ", "G", "r", "i", "e", "g", "o">>,
        lat |-> 110850, lng |-> -639690,
        aliases |-> <<<<"b", "a", "h", "i", "a", " ", "j", "u", "a", "n", " ", "g", "r", "i", "e", "g", "o">>>>],
       [name |-> <<"L", "a", " ", "A", "s", "u", "n", "c", "i", "ó", "n">>,
        lat |-> 110333, lng |-> -638628,
        aliases |-> <<<<"a", "s", "u", "n", "c", "i", "o", "n">>, <<"c", "a", "p", "i", "t", "a", "l">>>>],
       [name |-> <<"S", "a", "m", "b", "i", "l">>,
        lat |-> 109962, lng |-> -638140,
        aliases |-> <<<<"s", "a", "m", "b", "i", "l", " ", "m", "a", "r", "g", "a", "r", "i", "t", "a">>, <<"c", "c", " ", "s", "a", "m", "b", "i", "l">>>>],
       [name |-> <<"R", "a", "t", "t", "a", "n", " ", "P", "l", "a", "z", "a">>,
        lat |-> 109926, lng |-> -638234,
        aliases |-> <<<<"r", "a", "t", "t", "a", "n">>, <<"c", "c", " ", "r", "a", "t", "t", "a", "n">>>>],
       [name |-> <<"L", "a", " ", "C", "a", "r", "a", "c", "o", "l", "a">>,
        lat |-> 109580, lng |-> -638491,
        aliases |-> <<<<"p", "i", "s", "t", "a", " ", "c", "a", "r", "a", "c", "o", "l", "a">>>>],
       [name |-> <<"C", "o", "s", "t", "a", " ", "A", "z", "u", "l">>,
        lat |-> 109772, lng |-> -638229,
        aliases |-> <<<<"u", "r", "b", " ", "c", "o", "s", "t", "a", " ", "a", "z", "u", "l">>, <<"u", "r", "b", "a", "n", "i", "z", "a", "c", "i", "o", "n", " ", "c", "o", "s", "t", "a", " ", "a", "z", "u", "l">>>>],
       [name |-> <<"J", "o", "r", "g", "e", " ", "C", "o", "l", "l">>,
        lat |-> 109991, lng |-> -638228,
        aliases |-> <<<<"u", "r", "b", " ", "j", "o", "r", "g", "e", " ", "c", "o", "l", "l">>>>],
       [name |-> <<"L", "o", "s", " ", "R", "o", "b", "l", "e", "s">>,
        lat |-> 109880, lng |-> -638310,
        aliases |-> <<<<"p", "l", "a", "z", "a", " ", "l", "o", "s", " ", "r", "o", "b", "l", "e", "s">>>>],
       [name |-> <<"M", "a", "n", "e", "i", "r", "o">>,
        lat |-> 109950, lng |-> -638150,
        aliases |-> <<<<"m", "u", "n", "i", "c", "i", "p", "i", "o", " ", "m", "a", "n", "e", "i", "r", "o">>>>],
       [name |-> <<"P", "a", "r", "q", "u", "e", " ", "C", "o", "s", "t", "a", "z", "u", "l">>,
        lat |-> 109880, lng |-> -638540,
        aliases |-> <<<<"c", "o", "s", "t", "a", "z", "u", "l">>, <<"c", "c", " ", "c", "o", "s", "t", "a", "z", "u", "l">>>>],
       [name |-> <<"B", "e", "l", "l", "a", " ", "V", "i", "s", "t", "a">>,
        lat |-> 109660, lng |-> -638570,
        aliases |-> <<<<"p", "l", "a", "y", "a", " ", "b", "e", "l", "l", "a", " ", "v", "i", "s", "t", "a">>>>],
       [name |-> <<"V", "i", "l", "l", "a", " ", "R", "o", "s", "a">>,
        lat |-> 109524, lng |-> -639258,
        aliases |-> <<<<"u", "r", "b", " ", "v", "i", "l", "l", "a", " ", "r", "o", "s", "a">>>>],
       [name |-> <<"L", "a", "s", " ", "G", "a", "r", "z", "a", "s">>,
        lat |-> 109690, lng |-> -638500,
        aliases |-> <<<<"s", "e", "c", "t", "o", "r", " ", "l", "a", "s", " ", "g", "a", "r", "z", "a", "s">>, <<"s", "i", "g", "o">>>>],
       [name |-> <<"L", "a", " ", "A", "r", "b", "o", "l", "e", "d", "a">>,
        lat |-> 109762, lng |-> -638332,
        aliases |-> <<<<"u", "r", "b", " ", "l", "a", " ", "a", "r", "b", "o", "l", "e", "d", "a">>>>],
       [name |-> <<"L", "o", "s", " ", "C", "o", "c", "o", "s">>,
        lat |-> 109555, lng |-> -638477,
        aliases |-> <<<<"s", "e", "c", "t", "o", "r", " ", "l", "o", "s", " ", "c", "o", "c", "o", "s">>>>],
       [name |-> <<"P", "l", "a", "y", "a", " ", "E", "l", " ", "Á", "n", "g", "e", "l">>,
        lat |-> 109880, lng |-> -638330,
        aliases |-> <<<<"e", "l", " ", "a", "n", "g", "e", "l">>, <<"p", "l", "a", "y", "a", " ", "e", "l", " ", "a", "n", "g", "e", "l">>>>],
       [name |-> <<"E", "l", " ", "P", "a", "r", "a", "í", "s", "o">>,
        lat |-> 109650, lng |-> -638400,
        aliases |-> <<<<"u", "r", "b", " ", "e", "l", " ", "p", "a", "r", "a", "i", "s", "o">>>>],
       [name |-> <<"S", "a", "b", "a", "n", "a", "m", "a", "r">>,
        lat |-> 109700, lng |-> -638350,
        aliases |-> <<<<"u", "r", "b", " ", "s", "a", "b", "a", "n", "a", "m", "a", "r">>>>],
       [name |-> <<"G", "u", "a", "c", "u", "c", "o">>,
        lat |-> 110502, lng |-> -638133,
        aliases |-> <<<<"p", "l", "a", "y", "a", " ", "g", "u", "a", "c", "u", "c", "o">>>>],
       [name |-> <<"P", "a", "r", "a", "g", "u", "a", "c", "h", "í">>,
        lat |-> 110600, lng |-> -638100,
        aliases |-> <<>>],
       [name |-> <<"E", "l", " ", "C", "a", "r", "d", "ó", "n">>,
        lat |-> 110450, lng |-> -638150,
        aliases |-> <<>>],
       [name |-> <<"P", "l", "a", "y", "a", " ", "C", "a", "r", "i", "b", "e">>,
        lat |-> 111110, lng |-> -639580,
        aliases |-> <<<<"c", "a", "r", "i", "b", "e">>>>],
       [name |-> <<"P", "l", "a", "y", "a", " ", "E", "l", " ", "A", "g", "u", "a">>,
        lat |-> 111455, lng |-> -638630,
        aliases |-> <<<<"e", "l", " ", "a", "g", "u", "a">>>>],
       [name |-> <<"P", "l", "a", "y", "a", " ", "P", "a", "r", "g", "u", "i", "t", "o">>,
        lat |-> 111350, lng |-> -638510,
        aliases |-> <<<<"p", "a", "r", "g", "u", "i", "t", "o">>>>],
       [name |-> <<"P", "u", "e", "r", "t", "o", " ", "C", "r", "u", "z">>,
        lat |-> 111450, lng |-> -639550,
        aliases |-> <<>>],
       [name |-> <<"P", "l", "a", "y", "a", " ", "Z", "a", "r", "a", "g", "o", "z", "a">>,
        lat |-> 111400, lng |-> -639400,
        aliases |-> <<<<"z", "a", "r", "a", "g", "o", "z", "a">>>>],
       [name |-> <<"P", "e", "d", "r", "o", " ", "G", "o", "n", "z", "á", "l", "e", "z">>,
        lat |-> 111350, lng |-> -639350,
        aliases |-> <<<<"p", "e", "d", "r", "o", " ", "g", "o", "n", "z", "a", "l", "e", "z">>>>],
       [name |-> <<"M", "a", "n", "z", "a", "n", "i", "l", "l", "o">>,
        lat |-> 111575, lng |-> -638920,
        aliases |-> <<<<"b", "a", "h", "i", "a", " ", "m", "a", "n", "z", "a", "n", "i", "l", "l", "o">>>>],
       [name |-> <<"E", "l", " ", "Y", "a", "q", "u", "e">>,
        lat |-> 109023, lng |-> -639616,
        aliases |-> <<<<"p", "l", "a", "y", "a", " ", "e", "l", " ", "y", "a", "q", "u", "e">>, <<"y", "a", "q", "u", "e">>>>],
       [name |-> <<"E", "l", " ", "V", "a", "l", "l", "e">>,
        lat |-> 109850, lng |-> -638850,
        aliases |-> <<<<"v", "a", "l", "l", "e", " ", "d", "e", "l", " ", "e", "s", "p", "i", "r", "i", "t", "u", " ", "s", "a", "n", "t", "o">>, <<"b", "a", "s", "i", "l", "i", "c", "a">>>>],
       [name |-> <<"S", "a", "n", " ", "J", "u", "a", "n", " ", "B", "a", "u", "t", "i", "s", "t", "a">>,
        lat |-> 110100, lng |-> -639300,
        aliases |-> <<<<"s", "a", "n", " ", "j", "u", "a", "n">>>>],
       [name |-> <<"B", "o", "c", "a", " ", "d", "e", " ", "R", "í", "o">>,
        lat |-> 109650, lng |-> -640300,
        aliases |-> <<<<"b", "o", "c", "a", " ", "d", "e", "l", " ", "r", "i", "o">>>>],
       [name |-> <<"B", "o", "c", "a", " ", "d", "e", " ", "P", "o", "z", "o">>,
        lat |-> 109800, lng |-> -640100,
        aliases |-> <<>>],
       [name |-> <<"S", "a", "n", " ", "F", "r", "a", "n", "c", "i", "s", "c", "o">>,
        lat |-> 109700, lng |-> -640000,
        aliases |-> <<<<"s", "a", "n", " ", "f", "r", "a", "n", "c", "i", "s", "c", "o", " ", "m", "a", "c", "a", "n", "a", "o">>>>],
       [name |-> <<"I", "s", "l", "a", " ", "d", "e", " ", "M", "a", "r", "g", "a", "r", "i", "t", "a">>,
        lat |-> 110000, lng |-> -638800,
        aliases |-> <<<<"m", "a", "r", "g", "a", "r", "i", "t", "a">>, <<"n", "u", "e", "v", "a", " ", "e", "s", "p", "a", "r", "t", "a">>, <<"i", "s", "l", "a">>>>] >>

\* MARGARITA_BOUNDS of coordinateService.ts
COORDINATE_BOUNDS == [minLat |-> 108500, maxLat |-> 112000,
                      minLng |-> -640500, maxLng |-> -637000]

isValidMargaritaCoordinate(lat, lng) ==
    /\ lat >= COORDINATE_BOUNDS.minLat
    /\ lat <= COORDINATE_BOUNDS.maxLat
    /\ lng >= COORDINATE_BOUNDS.minLng
    /\ lng <= COORDINATE_BOUNDS.maxLng

\* String.prototype.trim
trim(s) ==
    IF \A i \in DOMAIN s : IsSpace(s[i]) THEN <<>>
    ELSE LET first == CHOOSE i \in DOMAIN s :
                          ~IsSpace(s[i]) /\ \A j \in 1..(i - 1) : IsSpace(s[j])
             last == CHOOSE i \in DOMAIN s :
                          ~IsSpace(s[i]) /\ \A j \in (i + 1)..Len(s) : IsSpace(s[j])
         IN  SubSeq(s, first, last)

\* Array.prototype.find over MARGARITA_ZONES as an index, 0 if none.
ExactMatches(searchName) ==
    {k \in DOMAIN MARGARITA_ZONES : LowerText(MARGARITA_ZONES[k].name) = searchName}

AliasMatches(searchName) ==
    {k \in DOMAIN MARGARITA_ZONES :
        \E a \in Range(MARGARITA_ZONES[k].aliases) : LowerText(a) = searchName}

PartialMatches(searchName) ==
    {k \in DOMAIN MARGARITA_ZONES :
        \/ Includes(LowerText(MARGARITA_ZONES[k].name), searchName)
        \/ Includes(searchName, LowerText(MARGARITA_ZONES[k].name))
        \/ \E a \in Range(MARGARITA_ZONES[k].aliases) :
               \/ Includes(LowerText(a), searchName)
               \/ Includes(searchName, LowerText(a))}

findZoneByNamePartialFirst(zoneName) ==
    IF zoneName = <<>> THEN 0
    ELSE LET searchName == trim(LowerText(zoneName))
         IN  IF ExactMatches(searchName) # {} THEN FirstIndex(ExactMatches(searchName))
             ELSE IF PartialMatches(searchName) # {}
             THEN FirstIndex(PartialMatches(searchName))
             ELSE FirstIndex(AliasMatches(searchName))

\* The index in MARGARITA_ZONES of the entry returned, 0 for null.
findZoneByName(zoneName) ==
    IF zoneName = <<>> THEN 0
    ELSE LET searchName == trim(LowerText(zoneName))
         IN  IF ExactMatches(searchName) # {} THEN FirstIndex(ExactMatches(searchName))
             ELSE IF AliasMatches(searchName) # {}
             THEN FirstIndex(AliasMatches(searchName))
             ELSE FirstIndex(PartialMatches(searchName))

NoCoordinates == [found |-> FALSE, lat |-> 0, lng |-> 0]

\* (Math.random() - 0.5) * 0.003: any value of [-0.0015, 0.0015)
ZoneOffsets == (-15)..15

\* (Math.random() - 0.5) * 0.01: any value of [-0.005, 0.005)
DefaultOffsets == (-50)..50

\* getZoneCoordinates with the two values offset() returns.
getZoneCoordinates(zoneName, offsetLat, offsetLng) ==
    LET zone == findZoneByName(zoneName)
    IN  IF zone = 0 THEN NoCoordinates
        ELSE [found |-> TRUE,
              lat |-> MARGARITA_ZONES[zone].lat + offsetLat,
              lng |-> MARGARITA_ZONES[zone].lng + offsetLng]

\* validateAndFixCoordinates; absent coordinates are NoCoordinates, an
\* absent zone name is <<>>.
validateAndFixCoordinates(coordinates, zoneName, offsetLat, offsetLng) ==
    IF /\ coordinates.found
       /\ coordinates.lat # 0
       /\ coordinates.lng # 0
       /\ isValidMargaritaCoordinate(coordinates.lat, coordinates.lng)
    THEN [found |-> TRUE, lat |-> coordinates.lat, lng |-> coordinates.lng]
    ELSE IF zoneName # <<>>
    THEN getZoneCoordinates(zoneName, offsetLat, offsetLng)
    ELSE NoCoordinates

getDefaultCoordinatesNorth(offsetLat, offsetLng) ==
    [found |-> TRUE, lat |-> 112000 + offsetLat, lng |-> -638800 + offsetLng]

getDefaultCoordinates(offsetLat, offsetLng) ==
    [found |-> TRUE, lat |-> 110000 + offsetLat, lng |-> -638800 + offsetLng]

\* The names extractPropertyInfoLocal gives a zone, as text.
ZoneNameText ==
    ("Porlamar" :> <<"P", "o", "r", "l", "a", "m", "a", "r">>)
    @@ ("Sambil" :> <<"S", "a", "m", "b", "i", "l">>)
    @@ ("La Caracola" :> <<"L", "a", " ", "C", "a", "r", "a", "c", "o", "l", "a">>)
    @@ ("Rattan Plaza" :> <<"R", "a", "t", "t", "a", "n", " ", "P", "l", "a", "z", "a">>)
    @@ ("Bella Vista" :> <<"B", "e", "l", "l", "a", " ", "V", "i", "s", "t", "a">>)
    @@ ("Costa Azul" :> <<"C", "o", "s", "t", "a", " ", "A", "z", "u", "l">>)
    @@ ("Los Robles" :> <<"L", "o", "s", " ", "R", "o", "b", "l", "e", "s">>)
    @@ ("El Morro" :> <<"E", "l", " ", "M", "o", "r", "r", "o">>)
    @@ ("Piedras" :> <<"P", "i", "e", "d", "r", "a", "s">>)
    @@ ("Costa Margarita" :> <<"C", "o", "s", "t", "a", " ", "M", "a", "r", "g", "a", "r", "i", "t", "a">>)
    @@ ("Jorge Coll" :> <<"J", "o", "r", "g", "e", " ", "C", "o", "l", "l">>)
    @@ ("Villa Rosa" :> <<"V", "i", "l", "l", "a", " ", "R", "o", "s", "a">>)
    @@ ("Las Garzas" :> <<"L", "a", "s", " ", "G", "a", "r", "z", "a", "s">>)
    @@ ("La Arboleda" :> <<"L", "a", " ", "A", "r", "b", "o", "l", "e", "d", "a">>)
    @@ ("Los Cocos" :> <<"L", "o", "s", " ", "C", "o", "c", "o", "s">>)
    @@ ("Playa El Angel" :> <<"P", "l", "a", "y", "a", " ", "E", "l", " ", "A", "n", "g", "e", "l">>)
    @@ ("Pampatar" :> <<"P", "a", "m", "p", "a", "t", "a", "r">>)
    @@ ("Guacuco" :> <<"G", "u", "a", "c", "u", "c", "o">>)
    @@ ("Paraguachí" :> <<"P", "a", "r", "a", "g", "u", "a", "c", "h", "í">>)
    @@ ("El Cardón" :> <<"E", "l", " ", "C", "a", "r", "d", "ó", "n">>)
    @@ ("Playa Caribe" :> <<"P", "l", "a", "y", "a", " ", "C", "a", "r", "i", "b", "e">>)
    @@ ("Playa El Agua" :> <<"P", "l", "a", "y", "a", " ", "E", "l", " ", "A", "g", "u", "a">>)
    @@ ("Playa Parguito" :> <<"P", "l", "a", "y", "a", " ", "P", "a", "r", "g", "u", "i", "t", "o">>)
    @@ ("Puerto Cruz" :> <<"P", "u", "e", "r", "t", "o", " ", "C", "r", "u", "z">>)
    @@ ("Playa Zaragoza" :> <<"P", "l", "a", "y", "a", " ", "Z", "a", "r", "a", "g", "o", "z", "a">>)
    @@ ("Playa El Humo" :> <<"P", "l", "a", "y", "a", " ", "E", "l", " ", "H", "u", "m", "o">>)
    @@ ("Manzanillo" :> <<"M", "a", "n", "z", "a", "n", "i", "l", "l", "o">>)
    @@ ("Pedro González" :> <<"P", "e", "d", "r", "o", " ", "G", "o", "n", "z", "á", "l", "e", "z">>)
    @@ ("Playa Puerto Viejo" :> <<"P", "l", "a", "y", "a", " ", "P", "u", "e", "r", "t", "o", " ", "V", "i", "e", "j", "o">>)
    @@ ("La Asunción" :> <<"L", "a", " ", "A", "s", "u", "n", "c", "i", "ó", "n">>)
    @@ ("El Valle" :> <<"E", "l", " ", "V", "a", "l", "l", "e">>)
    @@ ("Santa Ana" :> <<"S", "a", "n", "t", "a", " ", "A", "n", "a">>)
    @@ ("Tacarigua" :> <<"T", "a", "c", "a", "r", "i", "g", "u", "a">>)
    @@ ("Juan Griego" :> <<"J", "u", "a", "n", " ", "G", "r", "i", "e", "g", "o">>)
    @@ ("San Juan Bautista" :> <<"S", "a", "n", " ", "J", "u", "a", "n", " ", "B", "a", "u", "t", "i", "s", "t", "a">>)
    @@ ("La Galera" :> <<"L", "a", " ", "G", "a", "l", "e", "r", "a">>)
    @@ ("El Yaque" :> <<"E", "l", " ", "Y", "a", "q", "u", "e">>)
    @@ ("Boca de Río" :> <<"B", "o", "c", "a", " ", "d", "e", " ", "R", "í", "o">>)
    @@ ("Boca del Pozo" :> <<"B", "o", "c", "a", " ", "d", "e", "l", " ", "P", "o", "z", "o">>)
    @@ ("San Francisco" :> <<"S", "a", "n", " ", "F", "r", "a", "n", "c", "i", "s", "c", "o">>)
    @@ ("Isla de Margarita" :> <<"I", "s", "l", "a", " ", "d", "e", " ", "M", "a", "r", "g", "a", "r", "i", "t", "a">>)
    @@ ("Nueva Esparta" :> <<"N", "u", "e", "v", "a", " ", "E", "s", "p", "a", "r", "t", "a">>)

ExtractorZones == DOMAIN ZoneNameText

\* ------------------------------------------------------------------------
\* zoneAnalyzer: groupPropertiesByZone, getRecommendationLevel, analyzeZones.
\* An average is kept as its sum and its count; comparisons of averages are
\* made on cross-multiplied integers.  A zone name is a sequence of
\* one-character strings, <<>> when the listing has no zone.
\* ------------------------------------------------------------------------
zoneKeyUntrimmed(property) == property.zone

\* const zone = property.zone.trim()
zoneKey(property) == trim(property.zone)

\* groups[zone], as the index of the group in insertion order, 0 if none.
GroupIndex(groups, zone) ==
    FirstIndex({k \in DOMAIN groups : groups[k].name = zone})

\* groupPropertiesByZone: the groups in the order Object.entries gives them
\* (insertion order).
RECURSIVE GroupLoop(_, _, _)
GroupLoop(list, i, groups) ==
    IF i > Len(list) THEN groups
    ELSE IF list[i].zone = <<>> THEN GroupLoop(list, i + 1, groups)
    ELSE LET zone == zoneKey(list[i])
             k == GroupIndex(groups, zone)
         IN  IF k = 0
             THEN GroupLoop(list, i + 1,
                            Append(groups, [name |-> zone, members |-> <<list[i]>>]))
             ELSE GroupLoop(list, i + 1,
                            [groups EXCEPT ![k].members = Append(@, list[i])])

groupPropertiesByZone(list) == GroupLoop(list, 1, <<>>)

RECURSIVE SumField(_, _)
SumField(list, field) ==
    IF list = <<>> THEN 0 ELSE Head(list)[field] + SumField(Tail(list), field)

CountField(list, field) == Cardinality({i \in DOMAIN list : list[i][field] # 0})

\* analyzeZones, first pass: the Zone pushed for one group.  avgPrice is
\* priceSum / priceCount, avgPricePerM2 is perM2Sum / perM2Count,
\* qualityScore is totalQuality / propertyCount (0 where the count is 0).
ZoneOfGroup(group) ==
    [name |-> group.name,
     propertyCount |-> Len(group.members),
     priceSum |-> SumField(group.members, "price"),
     priceCount |-> CountField(group.members, "price"),
     perM2Sum |-> SumField(group.members, "pricePerM2"),
     perM2Count |-> CountField(group.members, "pricePerM2"),
     totalQuality |-> SumField(group.members, "qualityScore"),
     priceScore |-> 0,
     recommendationLevel |-> "MEDIUM"]

Denominator(zone) == IF zone.perM2Count = 0 THEN 1 ELSE zone.perM2Count

RECURSIVE CommonDenominator(_)
CommonDenominator(zones) ==
    IF zones = <<>> THEN 1
    ELSE Denominator(Head(zones)) * CommonDenominator(Tail(zones))

\* zone.avgPricePerM2 multiplied by the common denominator of allZones.
ScaledPerM2(zone, allZones) ==
    zone.perM2Sum * (CommonDenominator(allZones) \div Denominator(zone))

RECURSIVE ScaledPerM2Sum(_, _)
ScaledPerM2Sum(zones, allZones) ==
    IF zones = <<>> THEN 0
    ELSE ScaledPerM2(Head(zones), allZones) + ScaledPerM2Sum(Tail(zones), allZones)

\* avgPricePerM2 < marketAvgPrice * percent / 100, where marketAvgPrice is
\* the sum of the zones' averages divided by allZones.length.
BelowMarket(zone, allZones, percent) ==
    100 * Len(allZones) * ScaledPerM2(zone, allZones)
        < percent * ScaledPerM2Sum(allZones, allZones)

\* getRecommendationLevel: priceScore
priceScoreOf(zone, allZones) ==
    IF zone.perM2Sum > 0 /\ BelowMarket(zone, allZones, 110) THEN 70
    ELSE IF BelowMarket(zone, allZones, 90) THEN 100
    ELSE 40

\* densityScore = Math.min(100, (propertyCount / 10) * 100)
densityScoreOf(zone) == Min(100, zone.propertyCount * 10)

LevelOfStrict(priceScore, zone) ==
    LET scaled == 4 * priceScore * zone.propertyCount
                      + 4 * zone.totalQuality
                      + 2 * densityScoreOf(zone) * zone.propertyCount
    IN  IF scaled > 700 * zone.propertyCount THEN "HIGH"
        ELSE IF scaled > 450 * zone.propertyCount THEN "MEDIUM"
        ELSE "LOW"

\* getRecommendationLevel: totalScore and the level; totalScore is compared
\* after multiplication by 10 * propertyCount.
LevelOf(priceScore, zone) ==
    LET scaled == 4 * priceScore * zone.propertyCount
                      + 4 * zone.totalQuality
                      + 2 * densityScoreOf(zone) * zone.propertyCount
    IN  IF scaled >= 700 * zone.propertyCount THEN "HIGH"
        ELSE IF scaled >= 450 * zone.propertyCount THEN "MEDIUM"
        ELSE "LOW"

\* analyzeZones, second pass; priceScore is kept in the record so that the
\* local of getRecommendationLevel can be read.
SecondPass(zones) ==
    [k \in DOMAIN zones |->
        [zones[k] EXCEPT !.priceScore = priceScoreOf(zones[k], zones),
                         !.recommendationLevel =
                             LevelOf(priceScoreOf(zones[k], zones), zones[k])]]

levelScore == [HIGH |-> 3, MEDIUM |-> 2, LOW |-> 1]

\* The comparator of zones.sort: whether it puts a strictly before b.
SortsBefore(a, b) ==
    IF levelScore[b.recommendationLevel] # levelScore[a.recommendationLevel]
    THEN levelScore[a.recommendationLevel] > levelScore[b.recommendationLevel]
    ELSE a.totalQuality * b.propertyCount > b.totalQuality * a.propertyCount

\* Array.prototype.sort (stable): insertion of z after the last element
\* that z does not sort before.
RECURSIVE InsertSorted(_, _)
InsertSorted(sorted, z) ==
    IF sorted = <<>> THEN <<z>>
    ELSE IF SortsBefore(z, sorted[Len(sorted)])
    THEN Append(InsertSorted(SubSeq(sorted, 1, Len(sorted) - 1), z),
                sorted[Len(sorted)])
    ELSE Append(sorted, z)

RECURSIVE SortZones(_, _, _)
SortZones(zones, i, sorted) ==
    IF i > Len(zones) THEN sorted
    ELSE SortZones(zones, i + 1, InsertSorted(sorted, zones[i]))

analyzeZones(list) ==
    LET grouped == groupPropertiesByZone(list)
        zones == [k \in DOMAIN grouped |-> ZoneOfGroup(grouped[k])]
    IN  SortZones(SecondPass(zones), 1, <<>>)

\* ---- listings handed to analyzeZones ----
AnalysisZoneTexts == {<<>>, <<"A">>, <<" ", "A">>, <<"B">>}

AnalysisPricings ==
    { [price |-> 0, pricePerM2 |-> 0],
      [price |-> 50000, pricePerM2 |-> 500],
      [price |-> 100000, pricePerM2 |-> 1000] }

AnalysisSamples ==
    {[zone |-> z, price |-> c.price, pricePerM2 |-> c.pricePerM2, qualityScore |-> q] :
        z \in AnalysisZoneTexts, c \in AnalysisPricings, q \in {50, 100}}

\* ------------------------------------------------------------------------
\* Listings enrichProperties can return (the part of a Property the
\* pipeline stages of this model read).  Every listing has a price in range
\* and a zone name of the extractor; bedrooms / area are optional.
\* qualityScore follows the extractor's formula for these fields.
\* ------------------------------------------------------------------------
SampleZones == {"Pampatar", "Sambil"}

\* enrichProperty's coordinates: the gazetteer point of the zone (jitter 0).
EnrichLat(zone) == IF zone = "Pampatar" THEN 109970 ELSE 109962
EnrichLng(zone) == IF zone = "Pampatar" THEN -637975 ELSE -638140

EnrichedSamples ==
    { [price |-> pr, zone |-> z, type |-> "CASA", bedrooms |-> b,
       bathrooms |-> 0, areaM2 |-> a,
       qualityScore |-> 65 + (IF b # 0 THEN 10 ELSE 0) + (IF a # 0 THEN 10 ELSE 0),
       latitude |-> EnrichLat(z), longitude |-> EnrichLng(z)] :
        pr \in {1000, 2000}, z \in SampleZones, b \in {0, 3}, a \in {0, 150} }

\* A batch: each post has its own id (posts are unique by shortCode).
WithIds(list) == [i \in DOMAIN list |-> [id |-> i] @@ list[i]]

EnrichedBatches(n) == {WithIds(l) : l \in SeqsUpTo(EnrichedSamples, n)}


\* ------------------------------------------------------------------------
\* AutoDiscovery.tsx: the reconciliation loop of discoverNext (Pass B)
\* ------------------------------------------------------------------------
\* existing.price && prop.price: the price test applies when both are set.
\* Math.abs(existing.price - prop.price) / existing.price > 0.1, in integers.
PriceTooFar(existing, prop) ==
    10 * Abs(existing.price - prop.price) > existing.price

\* The predicate of findSimilarProperty's find().
IsSimilar(existing, prop) ==
    /\ ~(existing.zone = "" \/ prop.zone = "")
    /\ ToLowerCase(existing.zone) = ToLowerCase(prop.zone)
    /\ existing.type = prop.type
    /\ ~(existing.price # 0 /\ prop.price # 0 /\ PriceTooFar(existing, prop))
    /\ ~(existing.bedrooms # 0 /\ prop.bedrooms # 0
            /\ existing.bedrooms # prop.bedrooms)
    /\ ~(existing.bathrooms # 0 /\ prop.bathrooms # 0
            /\ existing.bathrooms # prop.bathrooms)

FindByUrl(approvedProperties, prop) ==
    FirstIndex({k \in DOMAIN approvedProperties :
                    approvedProperties[k].instagramUrl = prop.instagramUrl})

findSimilarProperty(approvedProperties, prop) ==
    FirstIndex({k \in DOMAIN approvedProperties :
                    IsSimilar(approvedProperties[k], prop)})

\* approvedProperties.map(p => p.instagramUrl === prop.instagramUrl ? {...p, status: 'sold'} : p)
MarkSoldByUrl(approvedProperties, prop) ==
    [k \in DOMAIN approvedProperties |->
        IF approvedProperties[k].instagramUrl = prop.instagramUrl
        THEN [approvedProperties[k] EXCEPT !.status = "sold"]
        ELSE approvedProperties[k]]

\* approvedProperties.map(p => p.id === similarApproved.id ? {...p, status: 'sold'} : p)
MarkSoldById(approvedProperties, id) ==
    [k \in DOMAIN approvedProperties |->
        IF approvedProperties[k].id = id
        THEN [approvedProperties[k] EXCEPT !.status = "sold"]
        ELSE approvedProperties[k]]

\* approvedProperties.map(p => p.id === similarApproved.id ? {...p, postedAt: prop.postedAt} : p)
SetDateById(approvedProperties, id, postedAt) ==
    [k \in DOMAIN approvedProperties |->
        IF approvedProperties[k].id = id
        THEN [approvedProperties[k] EXCEPT !.postedAt = postedAt]
        ELSE approvedProperties[k]]

\* One iteration of `for (const prop of result.properties)`.
\* approvedProperties and queue are the props and state captured by the
\* closure.  `calls` is the sequence of arguments of the onPropertiesApproved
\* (= setProperties) calls the iteration makes, in order.
ReconcileStep(approvedProperties, queue, prop) ==
    LET byUrl == FindByUrl(approvedProperties, prop)
        similar == findSimilarProperty(approvedProperties, prop)
    IN
    IF byUrl # 0
    THEN IF prop.status = "sold" /\ approvedProperties[byUrl].status # "sold"
         THEN [calls |-> <<MarkSoldByUrl(approvedProperties, prop)>>, pushed |-> FALSE,
               skipped |-> 1, updated |-> 1, dateUpdated |-> 0, branch |-> "url"]
         ELSE [calls |-> <<>>, pushed |-> FALSE,
               skipped |-> 1, updated |-> 0, dateUpdated |-> 0, branch |-> "url"]
    ELSE IF \E k \in DOMAIN queue : queue[k].instagramUrl = prop.instagramUrl
    THEN [calls |-> <<>>, pushed |-> FALSE,
          skipped |-> 1, updated |-> 0, dateUpdated |-> 0, branch |-> "queued"]
    ELSE IF similar # 0
    THEN LET similarApproved == approvedProperties[similar]
             dateCall == IF prop.postedAt < similarApproved.postedAt
                         THEN <<SetDateById(approvedProperties, similarApproved.id,
                                            prop.postedAt)>>
                         ELSE <<>>
             soldCall == IF prop.status = "sold" /\ similarApproved.status # "sold"
                         THEN <<MarkSoldById(approvedProperties, similarApproved.id)>>
                         ELSE <<>>
         IN  [calls |-> dateCall \o soldCall, pushed |-> FALSE,
              skipped |-> 1, updated |-> Len(soldCall),
              dateUpdated |-> Len(dateCall), branch |-> "similar"]
    ELSE [calls |-> <<>>, pushed |-> TRUE,
          skipped |-> 0, updated |-> 0, dateUpdated |-> 0, branch |-> "new"]

\* React keeps the argument of the last setProperties(value) call.
AfterCalls(current, calls) ==
    IF calls = <<>> THEN current ELSE calls[Len(calls)]

\* {...prop, queueStatus: 'pending', discoveredAt}
AsPending(prop) == [queueStatus |-> "pending"] @@ prop

\* const { queueStatus, discoveredAt, ...cleanProperty } = property
CleanProperty(q) == [f \in (DOMAIN q) \ {"queueStatus"} |-> q[f]]

\* The whole synchronous loop followed by setPendingQueue, as a function of
\* the captured props and of the current state: the resulting corpus and
\* queue.
RECURSIVE LoopResult(_, _, _, _, _, _)
LoopResult(approvedProperties, queue, batch, i, corpus, newProperties) ==
    IF i > Len(batch)
    THEN [properties |-> corpus, newProperties |-> newProperties]
    ELSE LET step == ReconcileStep(approvedProperties, queue, batch[i])
         IN  LoopResult(approvedProperties, queue, batch, i + 1,
                        AfterCalls(corpus, step.calls),
                        IF step.pushed
                        THEN Append(newProperties, AsPending(batch[i]))
                        ELSE newProperties)

\* ------------------------------------------------------------------------
\* The listings of the model.  A discovered listing is an Instagram post:
\* id and instagramUrl both come from its shortCode.
\*   post 1: house in Pampatar, 1000, 3 bedrooms, posted day 3
\*   post 2: house in Pampatar, 1110, bedrooms not stated, posted day 5
\* An imported row carries its own id and any source URL.  approvalStatus ""
\* stands for a property without the optional field.
\* ------------------------------------------------------------------------
Listing(id, url, price, bedrooms, postedAt, status) ==
    [id |-> id, instagramUrl |-> url, zone |-> "Pampatar", type |-> "CASA",
     price |-> price, bedrooms |-> bedrooms, bathrooms |-> 2,
     postedAt |-> postedAt, status |-> status, approvalStatus |-> ""]

Statuses == {"available", "sold"}

Post(n, status) ==
    CASE n = 1 -> Listing(1, "u1", 1000, 3, 3, status)
      [] n = 2 -> Listing(2, "u2", 1110, 0, 5, status)

PostIds == {1, 2}

\* Results of runPropertyDiscovery: posts are unique by shortCode and
\* Pass A leaves one listing per composite key.
DiscoveryBatches ==
    { b \in UNION {[1..k -> {Post(n, st) : n \in PostIds, st \in Statuses}] :
                     k \in 1..MaxBatch} :
        \A i, j \in DOMAIN b : i # j => b[i].id # b[j].id }

\* Rows of an imported file: the row of post 1's URL.  processImport marks
\* every accepted row as pending.
ImportedRows ==
    { <<[Listing(9, "u1", 1000, 3, 6, "available")
            EXCEPT !.approvalStatus = "pending"]>> }

NoPass == [phase |-> "none", approved |-> <<>>, queue |-> <<>>, batch |-> <<>>,
           i |-> 0, newProperties |-> <<>>, skippedCount |-> 0,
           updatedCount |-> 0, dateUpdatedCount |-> 0, before |-> <<>>,
           last |-> "none"]

AppIdle ==
    /\ properties = <<>>
    /\ pendingQueue = <<>>
    /\ isRunning = FALSE
    /\ inflight = <<>>
    /\ cur = NoPass
    /\ passCount = 0

\* ------------------------------------------------------------------------
\* Specification SpecPassA: deduplicateProperties applied to a batch
\* ------------------------------------------------------------------------
DiscIdle ==
    /\ dStage = "idle"
    /\ postCount = 0
    /\ uniqueProperties = <<>>
    /\ geocodedProperties = <<>>
    /\ analyzedProperties = <<>>
    /\ progressLog = <<>>

DedupIdle ==
    /\ dedupIn = <<>>
    /\ dedupOut = <<>>
    /\ dedupDone = FALSE

InitPassA ==
    /\ dedupIn \in EnrichedBatches(MaxDedupBatch)
    /\ dedupOut = <<>>
    /\ dedupDone = FALSE
    /\ DiscIdle
    /\ AppIdle
    /\ ExtractIdle
    /\ CallIdle

Deduplicate ==
    /\ ~dedupDone
    /\ dedupOut' = deduplicateProperties(dedupIn)
    /\ dedupDone' = TRUE
    /\ UNCHANGED <<dedupIn, discVars, appVars, extractVars, callVars>>

NextPassA == Deduplicate

SpecPassA == InitPassA /\ [][NextPassA]_vars

\* C7: after deduplicateProperties, every composite key of the batch is
\* represented by exactly one output candidate, which is the earliest
\* candidate of highest quality score in its group; the output is a
\* sub-multiset of the input (candidates are returned unmodified), and
\* deduplicating the output again returns it unchanged.
GroupOf(list, key) == {i \in DOMAIN list : DedupKey(list[i]) = key}

BestIndex(list, key) ==
    CHOOSE i \in GroupOf(list, key) :
        /\ \A j \in GroupOf(list, key) : list[j].qualityScore <= list[i].qualityScore
        /\ \A j \in GroupOf(list, key) :
               list[j].qualityScore = list[i].qualityScore => i <= j

Count(list, r) == Cardinality({i \in DOMAIN list : list[i] = r})

EmitTwice(log, stage, progress) ==
    Append(Append(log, [stage |-> stage, progress |-> progress]),
           [stage |-> stage, progress |-> progress])

\* updateProgress with a callback: the event is appended to the callback's log.
Emit(log, stage, progress) == Append(log, [stage |-> stage, progress |-> progress])

InitDiscovery ==
    /\ dStage = "start"
    /\ postCount = 0
    /\ uniqueProperties = <<>>
    /\ geocodedProperties = <<>>
    /\ analyzedProperties = <<>>
    /\ progressLog = <<>>
    /\ DedupIdle
    /\ AppIdle
    /\ ExtractIdle
    /\ CallIdle

\* Entry: first progress event, then await discoverMargaritaProperties.
RunStart ==
    /\ dStage = "start"
    /\ progressLog' = Emit(progressLog, "scraping", 0)
    /\ dStage' = "scraping"
    /\ UNCHANGED <<postCount, uniqueProperties, geocodedProperties,
                   analyzedProperties, dedupVars, appVars, extractVars, callVars>>

\* The scrape found nothing: complete, empty result.
ScrapeReturnsNone ==
    /\ dStage = "scraping"
    /\ progressLog' = Emit(progressLog, "complete", 100)
    /\ dStage' = "returned"
    /\ UNCHANGED <<postCount, uniqueProperties, geocodedProperties,
                   analyzedProperties, dedupVars, appVars, extractVars, callVars>>

ScrapeReturns ==
    /\ dStage = "scraping"
    /\ \E n \in 1..MaxPosts : postCount' = n
    /\ progressLog' = Emit(Emit(progressLog, "scraping", 20), "extracting", 25)
    /\ dStage' = "extracting"
    /\ UNCHANGED <<uniqueProperties, geocodedProperties, analyzedProperties,
                   dedupVars, appVars, extractVars, callVars>>

\* The scrape rejects: the catch emits 'error' and rethrows.
ScrapeThrows ==
    /\ dStage = "scraping"
    /\ progressLog' = Emit(progressLog, "error", 0)
    /\ dStage' = "thrown"
    /\ UNCHANGED <<postCount, uniqueProperties, geocodedProperties,
                   analyzedProperties, dedupVars, appVars, extractVars, callVars>>

\* enrichProperties rejected every post.
EnrichReturnsNone ==
    /\ dStage = "extracting"
    /\ progressLog' = Emit(progressLog, "complete", 100)
    /\ dStage' = "returned"
    /\ UNCHANGED <<postCount, uniqueProperties, geocodedProperties,
                   analyzedProperties, dedupVars, appVars, extractVars, callVars>>

\* enrichProperties returned listings: Pass A, then await geocodeProperties.
EnrichReturns ==
    /\ dStage = "extracting"
    /\ \E enrichedProperties \in EnrichedBatches(postCount) :
          /\ Len(enrichedProperties) > 0
          /\ uniqueProperties' = deduplicateProperties(enrichedProperties)
    /\ progressLog' = Emit(Emit(Emit(progressLog, "extracting", 45),
                                "extracting", 50), "geocoding", 55)
    /\ dStage' = "geocoding"
    /\ UNCHANGED <<postCount, geocodedProperties, analyzedProperties, dedupVars, appVars, extractVars, callVars>>

\* One iteration of geocodeProperties' loop.  geocodeProperty does not
\* throw (geocodeAddress catches every failure), so the loop's catch branch
\* is never taken.
GeocodeNext ==
    /\ dStage = "geocoding"
    /\ Len(geocodedProperties) < Len(uniqueProperties)
    /\ \E external \in NominatimOutcomes :
          geocodedProperties' =
              Append(geocodedProperties,
                     geocodeProperty(uniqueProperties[Len(geocodedProperties) + 1],
                                     external))
    /\ UNCHANGED <<dStage, postCount, uniqueProperties, analyzedProperties,
                   progressLog, dedupVars, appVars, extractVars, callVars>>

\* geocodeProperties returned: the list goes to analyzeZones and
\* estimatePrices, and the run completes.
Analyze ==
    /\ dStage = "geocoding"
    /\ Len(geocodedProperties) = Len(uniqueProperties)
    /\ analyzedProperties' = geocodedProperties
    /\ progressLog' = Emit(Emit(Emit(Emit(Emit(progressLog,
                          "geocoding", 75), "analyzing", 80), "analyzing", 85),
                          "analyzing", 90), "complete", 100)
    /\ dStage' = "returned"
    /\ UNCHANGED <<postCount, uniqueProperties, geocodedProperties, dedupVars, appVars, extractVars, callVars>>

NextDiscovery ==
    \/ RunStart
    \/ ScrapeReturnsNone
    \/ ScrapeReturns
    \/ ScrapeThrows
    \/ EnrichReturnsNone
    \/ EnrichReturns
    \/ GeocodeNext
    \/ Analyze

SpecDiscovery == InitDiscovery /\ [][NextDiscovery]_vars

\* C1: every listing handed to analyzeZones and estimatePrices has a
\* (latitude, longitude) pair inside the island bounding box.
C1_AnalyticsInputInsideIsland ==
    \A i \in DOMAIN analyzedProperties :
        isWithinMargarita(analyzedProperties[i].latitude,
                          analyzedProperties[i].longitude)

\* ------------------------------------------------------------------------
\* Specification SpecApp: the App corpus, the AutoDiscovery queue and the
\* discovery loop.  A discoverNext call is split at its await; the loop
\* after the await is synchronous, so nothing else runs while cur.phase is
\* "loop" (its iterations are separate steps only so that each can be
\* observed).
\* ------------------------------------------------------------------------
InitApp ==
    /\ AppIdle
    /\ DiscIdle
    /\ DedupIdle
    /\ ExtractIdle
    /\ CallIdle

Quiet == cur.phase # "loop"

\* The play / pause button.
ToggleRunning ==
    /\ Quiet
    /\ isRunning' = ~isRunning
    /\ cur' = NoPass
    /\ UNCHANGED <<properties, pendingQueue, inflight, passCount,
                   discVars, dedupVars, extractVars, callVars>>

\* The effect runs discoverNext (on a dependency change or on the interval):
\* the call captures the props of that render and awaits the discovery.
DiscoverNextStart ==
    /\ Quiet
    /\ isRunning
    /\ Len(inflight) < MaxInFlight
    /\ passCount < MaxPasses
    /\ inflight' = Append(inflight,
                          [approved |-> properties, queue |-> pendingQueue])
    /\ passCount' = passCount + 1
    /\ cur' = NoPass
    /\ UNCHANGED <<properties, pendingQueue, isRunning, discVars, dedupVars,
                   extractVars, callVars>>

RemoveAt(list, k) ==
    [j \in 1..(Len(list) - 1) |-> IF j < k THEN list[j] ELSE list[j + 1]]

\* runPropertyDiscovery threw, or returned no listing: nothing to reconcile.
DiscoverNextNothing ==
    /\ Quiet
    /\ \E k \in DOMAIN inflight : inflight' = RemoveAt(inflight, k)
    /\ cur' = NoPass
    /\ UNCHANGED <<properties, pendingQueue, isRunning, passCount,
                   discVars, dedupVars, extractVars, callVars>>

\* runPropertyDiscovery returned listings: the loop begins.
DiscoverNextResult ==
    /\ Quiet
    /\ \E k \in DOMAIN inflight, batch \in DiscoveryBatches :
          /\ inflight' = RemoveAt(inflight, k)
          /\ cur' = [phase |-> "loop", approved |-> inflight[k].approved,
                     queue |-> inflight[k].queue, batch |-> batch, i |-> 1,
                     newProperties |-> <<>>, skippedCount |-> 0,
                     updatedCount |-> 0, dateUpdatedCount |-> 0,
                     before |-> properties, last |-> "none"]
    /\ UNCHANGED <<properties, pendingQueue, isRunning, passCount,
                   discVars, dedupVars, extractVars, callVars>>

\* One iteration of the for loop.
ReconcileCandidate ==
    /\ cur.phase = "loop"
    /\ cur.i <= Len(cur.batch)
    /\ LET prop == cur.batch[cur.i]
           step == ReconcileStep(cur.approved, cur.queue, prop)
       IN  /\ properties' = AfterCalls(properties, step.calls)
           /\ cur' = [cur EXCEPT
                        !.i = @ + 1,
                        !.newProperties = IF step.pushed
                                          THEN Append(@, AsPending(prop)) ELSE @,
                        !.skippedCount = @ + step.skipped,
                        !.updatedCount = @ + step.updated,
                        !.dateUpdatedCount = @ + step.dateUpdated,
                        !.last = step.branch]
    /\ UNCHANGED <<pendingQueue, isRunning, inflight, passCount,
                   discVars, dedupVars, extractVars, callVars>>

\* After the loop: setPendingQueue(prev => [...prev, ...newProperties]).
ReconcileFinish ==
    /\ cur.phase = "loop"
    /\ cur.i > Len(cur.batch)
    /\ pendingQueue' = pendingQueue \o cur.newProperties
    /\ cur' = [cur EXCEPT !.phase = "done"]
    /\ UNCHANGED <<properties, isRunning, inflight, passCount,
                   discVars, dedupVars, extractVars, callVars>>

\* AutoDiscovery.handleApprove on a queue entry shown as pending.
handleApprove ==
    /\ Quiet
    /\ Len(properties) < MaxCorpus
    /\ \E q \in DOMAIN pendingQueue :
          /\ pendingQueue[q].queueStatus = "pending"
          /\ pendingQueue' =
                [j \in DOMAIN pendingQueue |->
                    IF pendingQueue[j].id = pendingQueue[q].id
                    THEN [pendingQueue[j] EXCEPT !.queueStatus = "approved"]
                    ELSE pendingQueue[j]]
          /\ properties' = Append(properties, CleanProperty(pendingQueue[q]))
    /\ cur' = NoPass
    /\ UNCHANGED <<isRunning, inflight, passCount, discVars, dedupVars,
                   extractVars, callVars>>

\* AutoDiscovery.handleReject.
handleReject ==
    /\ Quiet
    /\ \E q \in DOMAIN pendingQueue :
          /\ pendingQueue[q].queueStatus = "pending"
          /\ pendingQueue' =
                [j \in DOMAIN pendingQueue |->
                    IF pendingQueue[j].id = pendingQueue[q].id
                    THEN [pendingQueue[j] EXCEPT !.queueStatus = "rejected"]
                    ELSE pendingQueue[j]]
    /\ cur' = NoPass
    /\ UNCHANGED <<properties, isRunning, inflight, passCount,
                   discVars, dedupVars, extractVars, callVars>>

\* App.handlePropertiesFound: a search result or an imported file arrives.
handlePropertiesFound ==
    /\ Quiet
    /\ \E newProperties \in DiscoveryBatches \cup ImportedRows :
          LET IsNew(p) == \A k \in DOMAIN properties : properties[k].id # p.id
              uniqueNew == SelectSeq(newProperties, IsNew)
          IN  /\ uniqueNew # <<>>
              /\ Len(properties) + Len(uniqueNew) <= MaxCorpus
              /\ properties' = properties \o uniqueNew
    /\ cur' = NoPass
    /\ UNCHANGED <<pendingQueue, isRunning, inflight, passCount,
                   discVars, dedupVars, extractVars, callVars>>

\* App.filteredProperties with every map filter set to 'all': the list
\* given to the map.
filteredProperties ==
    SelectSeq(properties, LAMBDA p : p.approvalStatus # "pending")

\* App.handleApprove on a property of the approval panel.
AppHandleApprove ==
    /\ Quiet
    /\ \E k \in DOMAIN properties :
          /\ properties[k].approvalStatus = "pending"
          /\ properties' =
                [j \in DOMAIN properties |->
                    IF properties[j].id = properties[k].id
                    THEN [properties[j] EXCEPT !.approvalStatus = "approved"]
                    ELSE properties[j]]
    /\ cur' = NoPass
    /\ UNCHANGED <<pendingQueue, isRunning, inflight, passCount,
                   discVars, dedupVars, extractVars, callVars>>

\* App.handleReject on a property of the approval panel.
AppHandleReject ==
    /\ Quiet
    /\ \E k \in DOMAIN properties :
          /\ properties[k].approvalStatus = "pending"
          /\ properties' =
                SelectSeq(properties, LAMBDA p : p.id # properties[k].id)
    /\ cur' = NoPass
    /\ UNCHANGED <<pendingQueue, isRunning, inflight, passCount,
                   discVars, dedupVars, extractVars, callVars>>

NextApp ==
    \/ AppHandleApprove
    \/ AppHandleReject
    \/ ToggleRunning
    \/ DiscoverNextStart
    \/ DiscoverNextNothing
    \/ DiscoverNextResult
    \/ ReconcileCandidate
    \/ ReconcileFinish
    \/ handleApprove
    \/ handleReject
    \/ handlePropertiesFound

SpecApp == InitApp /\ [][NextApp]_vars

\* The candidates of the loop that were merged into entry k of the captured
\* corpus: they took the similarity branch and entry k was the match.
MatchedTo(k) ==
    {i \in DOMAIN cur.batch :
        /\ ReconcileStep(cur.approved, cur.queue, cur.batch[i]).branch = "similar"
        /\ findSimilarProperty(cur.approved, cur.batch[i]) = k}

MinOf(S) == CHOOSE x \in S : \A y \in S : x <= y

\* The loop ran on the props of the current render (no other update arrived
\* while discoverNext was awaiting).
FreshPass ==
    /\ cur.approved = cur.before
    /\ pendingQueue = (IF cur.phase = "done" THEN cur.queue \o cur.newProperties
                       ELSE cur.queue)

\* C2: after the loop has processed a batch, every corpus entry matched as
\* similar by candidates of the batch has posted date = the minimum of its
\* previous date and the matched candidates' dates, and is sold iff it was
\* sold or a matched candidate is sold; no matched candidate is queued.
C2_MatchedEntryGetsEarliestDateAndSold ==
    (cur.phase = "done" /\ FreshPass) =>
        /\ Len(properties) = Len(cur.before)
        /\ \A k \in DOMAIN cur.before :
              MatchedTo(k) # {} =>
                /\ properties[k].postedAt =
                      MinOf({cur.before[k].postedAt} \cup
                            {cur.batch[i].postedAt : i \in MatchedTo(k)})
                /\ (properties[k].status = "sold") <=>
                      (\/ cur.before[k].status = "sold"
                       \/ \E i \in MatchedTo(k) : cur.batch[i].status = "sold")
                /\ \A i \in MatchedTo(k) :
                      \A q \in DOMAIN pendingQueue :
                          pendingQueue[q].instagramUrl # cur.batch[i].instagramUrl

\* C3: reconciling the same single candidate again, against the corpus and
\* queue the first reconciliation left, queues nothing and changes no entry.
C3_SecondReconciliationChangesNothing ==
    (cur.phase = "done" /\ Len(cur.batch) = 1 /\ FreshPass) =>
        LET again == LoopResult(properties, pendingQueue, cur.batch, 1,
                                properties, <<>>)
        IN  /\ again.newProperties = <<>>
            /\ again.properties = properties

\* C4: one iteration of the loop changes at most one corpus entry, the first
\* one (in corpus order) matching the candidate by source URL, else by
\* similarity; every other entry is left as it was.
C4_OnlyFirstMatchChanges ==
    [][(cur.phase = "loop" /\ cur'.i = cur.i + 1 /\ FreshPass) =>
          LET prop == cur.batch[cur.i]
              byUrl == FindByUrl(properties, prop)
              target == IF byUrl # 0 THEN byUrl
                        ELSE findSimilarProperty(properties, prop)
          IN  /\ Len(properties') = Len(properties)
              /\ \A k \in DOMAIN properties :
                    k # target => properties'[k] = properties[k]]_vars

\* C5: an iteration whose candidate has the source URL of a corpus entry
\* queues nothing, counts the candidate as skipped, makes that entry sold
\* iff the candidate is sold or the entry already was, and changes no other
\* field of it.
C5_UrlMatchOnlyEscalatesStatus ==
    [][(/\ cur.phase = "loop" /\ cur'.i = cur.i + 1 /\ FreshPass
        /\ FindByUrl(properties, cur.batch[cur.i]) # 0) =>
          LET prop == cur.batch[cur.i]
              k == FindByUrl(properties, prop)
          IN  /\ cur'.newProperties = cur.newProperties
              /\ cur'.skippedCount = cur.skippedCount + 1
              /\ Len(properties') = Len(properties)
              /\ properties'[k] =
                    [properties[k] EXCEPT
                        !.status = IF prop.status = "sold" THEN "sold" ELSE @]]_vars

\* C6: the loop treats entry and candidate as similar exactly when zone
\* (ignoring case) and category agree, the prices are absent on a side or
\* within 10% of each other, and bedroom and bathroom counts are absent on a
\* side or equal; the price test does not depend on which listing is the
\* corpus entry.
WithinTenPercentOfEachOther(a, b) ==
    /\ 10 * Abs(a.price - b.price) <= a.price
    /\ 10 * Abs(a.price - b.price) <= b.price

ClaimedSimilar(existing, prop) ==
    /\ ToLowerCase(existing.zone) = ToLowerCase(prop.zone)
    /\ existing.type = prop.type
    /\ (existing.price = 0 \/ prop.price = 0
           \/ WithinTenPercentOfEachOther(existing, prop))
    /\ (existing.bedrooms = 0 \/ prop.bedrooms = 0
           \/ existing.bedrooms = prop.bedrooms)
    /\ (existing.bathrooms = 0 \/ prop.bathrooms = 0
           \/ existing.bathrooms = prop.bathrooms)

C6_SimilarityAsClaimed ==
    cur.phase = "loop" =>
        \A k \in DOMAIN cur.approved, i \in DOMAIN cur.batch :
            LET existing == cur.approved[k]
                prop == cur.batch[i]
            IN  /\ IsSimilar(existing, prop) <=> ClaimedSimilar(existing, prop)
                /\ PriceTooFar(existing, prop) <=> PriceTooFar(prop, existing)

\* ------------------------------------------------------------------------
\* Specification SpecExtract: extractPropertyInfoLocal applied to a caption
\* ------------------------------------------------------------------------
InitExtract ==
    /\ postCaption \in Captions
    /\ extraction = Rejected("pending")
    /\ extracted = FALSE
    /\ DiscIdle
    /\ DedupIdle
    /\ AppIdle
    /\ CallIdle

Extract ==
    /\ ~extracted
    /\ extraction' = extractPropertyInfoLocal(postCaption)
    /\ extracted' = TRUE
    /\ UNCHANGED <<postCaption, discVars, dedupVars, appVars, callVars>>

NextExtract == Extract

SpecExtract == InitExtract /\ [][NextExtract]_vars

\* ------------------------------------------------------------------------
\* The captions for the details of an accepted listing: a sale caption with a
\* category word and a price in range, followed by up to MaxDetailFragments
\* of these fragments, and the example caption of the specification.
\*    1  "en Pampatar, "
\*    2  "Costa Margarita, "
\*    3  "C.C. Sambil, "
\*    4  "La Asunción, "
\*    5  "Isla de Margarita, "
\*    6  "3 habitaciones, "
\*    7  "25 hab, "
\*    8  "4h/3b/ "
\*    9  "2 baños, "
\*   10  "150m2, "
\*   11  "10 mts, "
\*   12  "piscina, "
\*   13  "vista al mar, "
\*   14  "terraza, jardín, garaje, vigilancia, cocina equipada, "
\* ------------------------------------------------------------------------
DetailFragments ==
    { <<"e", "n", " ", "P", "a", "m", "p", "a", "t", "a", "r", ",", " ">>,
      <<"C", "o", "s", "t", "a", " ", "M", "a", "r", "g", "a", "r", "i", "t", "a", ",", " ">>,
      <<"C", ".", "C", ".", " ", "S", "a", "m", "b", "i", "l", ",", " ">>,
      <<"L", "a", " ", "A", "s", "u", "n", "c", "i", "ó", "n", ",", " ">>,
      <<"I", "s", "l", "a", " ", "d", "e", " ", "M", "a", "r", "g", "a", "r", "i", "t", "a", ",", " ">>,
      <<"3", " ", "h", "a", "b", "i", "t", "a", "c", "i", "o", "n", "e", "s", ",", " ">>,
      <<"2", "5", " ", "h", "a", "b", ",", " ">>,
      <<"4", "h", "/", "3", "b", "/", " ">>,
      <<"2", " ", "b", "a", "ñ", "o", "s", ",", " ">>,
      <<"1", "5", "0", "m", "2", ",", " ">>,
      <<"1", "0", " ", "m", "t", "s", ",", " ">>,
      <<"p", "i", "s", "c", "i", "n", "a", ",", " ">>,
      <<"v", "i", "s", "t", "a", " ", "a", "l", " ", "m", "a", "r", ",", " ">>,
      << "t", "e", "r", "r", "a", "z", "a", ",", " ", "j", "a", "r",
       "d", "í", "n", ",", " ", "g", "a", "r", "a", "j", "e", ",",
       " ", "v", "i", "g", "i", "l", "a", "n", "c", "i", "a", ",",
       " ", "c", "o", "c", "i", "n", "a", " ", "e", "q", "u", "i",
       "p", "a", "d", "a", ",", " " >> }

AcceptedPrefix == << "V", "e", "n", "d", "o", " ", "i", "n", "m", "u", "e", "b",
       "l", "e", " ", "$", "8", "5", ".", "0", "0", "0", " " >>

\* "Casa en venta en Pampatar, 3 habitaciones, 2 baños, 150m2, piscina, precio $85.000 USD"
ExampleCaption ==
    << "C", "a", "s", "a", " ", "e", "n", " ", "v", "e", "n", "t",
       "a", " ", "e", "n", " ", "P", "a", "m", "p", "a", "t", "a",
       "r", ",", " ", "3", " ", "h", "a", "b", "i", "t", "a", "c",
       "i", "o", "n", "e", "s", ",", " ", "2", " ", "b", "a", "ñ",
       "o", "s", ",", " ", "1", "5", "0", "m", "2", ",", " ", "p",
       "i", "s", "c", "i", "n", "a", ",", " ", "p", "r", "e", "c",
       "i", "o", " ", "$", "8", "5", ".", "0", "0", "0", " ", "U",
       "S", "D" >>

DetailCaptions ==
    {AcceptedPrefix \o Concat(l) : l \in SeqsUpTo(DetailFragments, MaxDetailFragments)}
        \cup {ExampleCaption}

\* ------------------------------------------------------------------------
\* Specification SpecExtractDetail: extractPropertyInfoLocal applied to a
\* caption that passes the three filters
\* ------------------------------------------------------------------------
InitExtractDetail ==
    /\ postCaption \in DetailCaptions
    /\ extraction = Rejected("pending")
    /\ extracted = FALSE
    /\ DiscIdle
    /\ DedupIdle
    /\ AppIdle
    /\ CallIdle

SpecExtractDetail == InitExtractDetail /\ [][NextExtract]_vars

\* ------------------------------------------------------------------------
\* Claims about extractPropertyInfoLocal
\* ------------------------------------------------------------------------
RentalWords == { <<"a", "l", "q", "u", "i", "l", "e", "r">>,
                 <<"r", "e", "n", "t", "a">>,
                 <<"s", "e", " ", "a", "l", "q", "u", "i", "l", "a">> }

HoldsRentalWord(s) ==
    \E w \in RentalWords : \E i \in DOMAIN s : WordAt(s, i, w)

\* The caption holds a price that the loop alone would accept.
HasAcceptablePrice(s) == PriceLoop(s, 1, 0) > 0

\* C8: a caption that contains a rental keyword (alquiler, renta, se
\* alquila), in any letter case, is rejected (null), whatever sale tokens,
\* category keywords and price tokens it also contains.
C8_RentalCaptionIsRejected ==
    (extracted /\ HoldsRentalWord(postCaption)) => ~extraction.is_valid

\* C8 witness: a rental caption that also has sale intent, a category
\* keyword and a price in range, and was rejected.
C8_Witness ==
    /\ extracted
    /\ HoldsRentalWord(postCaption)
    /\ isSale(postCaption)
    /\ isProperty(postCaption)
    /\ HasAcceptablePrice(postCaption)
    /\ extraction = Rejected("sale")

\* A price token: a match of one of the four patterns, wherever it starts
\* (a number is taken whole, never from its middle).
TokenAt(k, s, i) ==
    /\ PatternAt(k, s, i).ok
    /\ (k \in {2, 3} /\ i > 1) => ~IsNumChar(s[i - 1])

PriceTokenSites(s) == {p \in (1..4) \X DOMAIN s : TokenAt(p[1], s, p[2])}

TokenValue(s, p) == ResolvedPrice(s, PatternAt(p[1], s, p[2]))

InClaimedRange(v) == v >= 1000 /\ v <= 10000000

PassesBothFilters(s) == isSale(s) /\ ~HoldsRentalWord(s) /\ isProperty(s)

\* C9 as stated: a caption that passes the sale-intent and category filters
\* and contains a price token resolving outside [1000, 10000000] is rejected
\* on price grounds.
C9_AnyTokenOutOfRangeRejects ==
    ( /\ extracted
      /\ PassesBothFilters(postCaption)
      /\ \E p \in PriceTokenSites(postCaption) :
             ~InClaimedRange(TokenValue(postCaption, p)) )
    => extraction = Rejected("price")

\* C9 amended: a caption that passes the sale-intent and category filters
\* and whose price tokens all resolve outside [1000, 10000000] is rejected
\* on price grounds.
C9_AllTokensOutOfRangeRejects ==
    ( /\ extracted
      /\ PassesBothFilters(postCaption)
      /\ PriceTokenSites(postCaption) # {}
      /\ \A p \in PriceTokenSites(postCaption) :
             ~InClaimedRange(TokenValue(postCaption, p)) )
    => extraction = Rejected("price")

\* C9 witness: two or more price tokens, of different patterns, all out of
\* range, in a caption that passed both filters and was rejected for price.
C9_Witness ==
    /\ extracted
    /\ PassesBothFilters(postCaption)
    /\ \E p, q \in PriceTokenSites(postCaption) : p[1] # q[1]
    /\ \A p \in PriceTokenSites(postCaption) :
           ~InClaimedRange(TokenValue(postCaption, p))
    /\ extraction = Rejected("price")

InRangeSites(s) ==
    {p \in PriceTokenSites(s) : InClaimedRange(TokenValue(s, p))}

\* The first token in the order of the patterns, then of the text.
FirstSite(S) ==
    CHOOSE p \in S :
        \A q \in S : p[1] < q[1] \/ (p[1] = q[1] /\ p[2] <= q[2])

\* C10: the patterns are tried in their fixed order; the price of a
\* returned candidate is the value of the first match that resolves into
\* [1000, 10000000], an out-of-range match counting as no match; a caption
\* is rejected for price only when it holds no price token that resolves
\* into the range; every returned candidate has a price in the range.
C10_PriceIsFirstTokenInRange ==
    extracted =>
        /\ extraction.is_valid =>
              /\ InClaimedRange(extraction.price_usd)
              /\ InRangeSites(postCaption) # {}
              /\ extraction.price_usd =
                     TokenValue(postCaption, FirstSite(InRangeSites(postCaption)))
        /\ extraction = Rejected("price") => InRangeSites(postCaption) = {}

\* ------------------------------------------------------------------------
\* Claims about the details of an accepted listing
\* ------------------------------------------------------------------------
ClaimedScore(e) ==
    Min(100, 50 + (IF e.price_usd # 0 THEN 15 ELSE 0)
                + (IF e.bedrooms # 0 THEN 10 ELSE 0)
                + (IF e.bathrooms # 0 THEN 5 ELSE 0)
                + (IF e.area_m2 # 0 THEN 10 ELSE 0)
                + Min(10, 2 * Len(e.features)))

\* C11: the quality score of every returned candidate is
\* min(100, 50 + 15 if price + 10 if bedrooms + 5 if bathrooms + 10 if area
\* + min(10, 2 x number of feature tags)), and so lies in [50, 100].
C11_QualityScoreAsClaimed ==
    (extracted /\ extraction.is_valid) =>
        /\ extraction.quality_score = ClaimedScore(extraction)
        /\ extraction.quality_score >= 50
        /\ extraction.quality_score <= 100

\* C11 witness: a candidate with more than five feature tags, where the cap
\* of the feature bonus decides the score.
C11_Witness ==
    /\ extracted
    /\ extraction.is_valid
    /\ Len(extraction.features) > 5
    /\ extraction.quality_score = ClaimedScore(extraction)

\* The caption speaks of air conditioning: the phrase, "a/c", or the word
\* "ac" standing alone.
IsLetter(c) ==
    LowerChar(c) \in {"a", "b", "c", "d", "e", "f", "g", "h", "i", "j", "k", "l", "m",
                      "n", "o", "p", "q", "r", "s", "t", "u", "v", "w", "x", "y", "z",
                      "á", "é", "í", "ó", "ú", "ñ", "ü"}

MentionsAirConditioning(s) ==
    \/ HasTwoWords(s, <<"a", "i", "r", "e">>, <<"a", "c", "o", "n", "d", "i", "c", "i", "o", "n", "a", "d", "o">>)
    \/ Includes(LowerText(s), <<"a", "/", "c">>)
    \/ \E i \in DOMAIN s :
           /\ WordAt(s, i, <<"a", "c">>)
           /\ (i > 1 => ~IsLetter(s[i - 1]))
           /\ (i + 2 <= Len(s) => ~IsLetter(s[i + 2]))

\* C12: the example caption is extracted as a house at 85000 in Pampatar
\* with 3 bedrooms, 2 bathrooms, 150 m2, the single feature tag of the pool
\* and quality score 92; a feature tag is given only when the caption
\* mentions that feature (here: the air-conditioning tag).
C12_ExampleCaptionExtraction ==
    extracted =>
        /\ postCaption = ExampleCaption =>
              /\ extraction.is_valid
              /\ extraction.property_type = "CASA"
              /\ extraction.price_usd = 85000
              /\ extraction.zone = "Pampatar"
              /\ extraction.bedrooms = 3
              /\ extraction.bathrooms = 2
              /\ extraction.area_m2 = 150
              /\ extraction.features = <<"Piscina">>
              /\ extraction.quality_score = 92
        /\ (extraction.is_valid /\ "Aire Acondicionado" \in Range(extraction.features))
              => MentionsAirConditioning(postCaption)

KeyContained(s, i) == Includes(normalize(s), normalize(zoneKeywords[i].key))

\* the entries of the generic keys, margarita and nueva esparta
GenericEntries == {i \in DOMAIN zoneKeywords :
                       zoneKeywords[i].key \in {<<"m", "a", "r", "g", "a", "r", "i", "t", "a">>, <<"n", "u", "e", "v", "a", " ", "e", "s", "p", "a", "r", "t", "a">>}}

SpecificEntries == (DOMAIN zoneKeywords) \ GenericEntries

InitCoords ==
    /\ args \in {[zone |-> z] : z \in ExtractorZones}
    /\ returned = <<>>
    /\ called = FALSE
    /\ DiscIdle
    /\ DedupIdle
    /\ AppIdle
    /\ ExtractIdle

\* enrichProperty: validateAndFixCoordinates(undefined, extraction.zone)
\* returned coordinates.
EnrichWithZoneCoordinates ==
    /\ ~called
    /\ \E offsetLat, offsetLng \in ZoneOffsets :
          LET coordinates == validateAndFixCoordinates(
                                 NoCoordinates, ZoneNameText[args.zone],
                                 offsetLat, offsetLng)
          IN  /\ coordinates.found
              /\ returned' = [coordinates |-> coordinates, tier |-> "zone"]
    /\ called' = TRUE
    /\ UNCHANGED <<args, discVars, dedupVars, appVars, extractVars>>

\* enrichProperty: validateAndFixCoordinates returned null, so
\* getDefaultCoordinates() is used.
EnrichWithDefaultCoordinates ==
    /\ ~called
    /\ ~validateAndFixCoordinates(NoCoordinates, ZoneNameText[args.zone], 0, 0).found
    /\ \E offsetLat, offsetLng \in DefaultOffsets :
          returned' = [coordinates |-> getDefaultCoordinates(offsetLat, offsetLng),
                       tier |-> "default"]
    /\ called' = TRUE
    /\ UNCHANGED <<args, discVars, dedupVars, appVars, extractVars>>

NextCoords == EnrichWithZoneCoordinates \/ EnrichWithDefaultCoordinates

SpecCoords == InitCoords /\ [][NextCoords]_vars

InsideIslandBox(lat, lng) ==
    /\ lat >= 108500 /\ lat <= 112000
    /\ lng >= -640500 /\ lng <= -637000

\* C14: for every zone name the extractor can output, enrichProperty gives
\* the listing coordinates, and they lie inside the island bounds, whether
\* they come from a registry entry with its jitter or from the default
\* island centre with its jitter.
C14_EnrichedCoordinatesInsideIsland ==
    called =>
        /\ returned.coordinates.found
        /\ InsideIslandBox(returned.coordinates.lat, returned.coordinates.lng)

\* C14 witness: a zone the registry does not know, placed at the island
\* centre with the largest jitter.
C14_Witness ==
    /\ called
    /\ returned.tier = "default"
    /\ findZoneByName(ZoneNameText[args.zone]) = 0
    /\ returned.coordinates.lat = 110000 + 50
    /\ InsideIslandBox(returned.coordinates.lat, returned.coordinates.lng)

\* ------------------------------------------------------------------------
\* Specification SpecFindZone: findZoneByName applied to a query
\* ------------------------------------------------------------------------
QueryCores ==
    {MARGARITA_ZONES[k].name : k \in DOMAIN MARGARITA_ZONES}
        \cup UNION {Range(MARGARITA_ZONES[k].aliases) : k \in DOMAIN MARGARITA_ZONES}
        \cup Range(ZoneNameText)
        \cup { <<"c", "o", "s", "t", "a">>,
             <<"p", "l", "a", "y", "a">>,
             <<"U", "r", "b", " ", "J", "o", "r", "g", "e", " ", "C", "o", "l", "l", " ", "N", "o", "r", "t", "e">>,
             <<"C", "a", "r", "a", "c", "a", "s">>,
             <<"I", "S", "L", "A">>,
             <<"P", "A", "M", "P", "A", "T", "A", "R">>,
             <<"m", "a", "r", "g", "a", "r", "i", "t", "a">> }

Pads == {<<>>, <<" ">>}

ZoneQueries ==
    {pre \o core \o post : pre \in Pads, core \in QueryCores, post \in Pads}
        \cup {<<>>, <<" ">>, <<" ", " ">>}

InitFindZone ==
    /\ args \in {[zoneName |-> q] : q \in ZoneQueries}
    /\ returned = <<>>
    /\ called = FALSE
    /\ DiscIdle
    /\ DedupIdle
    /\ AppIdle
    /\ ExtractIdle

FindZone ==
    /\ ~called
    /\ returned' = [zone |-> findZoneByName(args.zoneName)]
    /\ called' = TRUE
    /\ UNCHANGED <<args, discVars, dedupVars, appVars, extractVars>>

NextFindZone == FindZone

SpecFindZone == InitFindZone /\ [][NextFindZone]_vars

SameIgnoringCase(a, b) == LowerText(a) = LowerText(b)

ContainsEitherWay(a, b) ==
    Includes(LowerText(a), LowerText(b)) \/ Includes(LowerText(b), LowerText(a))

NameEquals(k, q) == SameIgnoringCase(MARGARITA_ZONES[k].name, q)

AliasEquals(k, q) ==
    \E a \in Range(MARGARITA_ZONES[k].aliases) : SameIgnoringCase(a, q)

SubstringRelated(k, q) ==
    \/ ContainsEitherWay(MARGARITA_ZONES[k].name, q)
    \/ \E a \in Range(MARGARITA_ZONES[k].aliases) : ContainsEitherWay(a, q)

Entries == DOMAIN MARGARITA_ZONES

Earliest(S) == CHOOSE k \in S : \A j \in S : k <= j

\* C15 as stated: findZoneByName returns an entry whose name equals the query
\* ignoring case; else the first entry, in registry order, with an alias
\* equal to the query ignoring case; else the first entry whose name or some
\* alias contains the query or is contained in it; else none.  An exact
\* name match wins over an alias or substring match of an earlier entry.
C15_FindZonePrecedence ==
    (called /\ args.zoneName # <<>>) =>
        LET q == args.zoneName
            byName == {k \in Entries : NameEquals(k, q)}
            byAlias == {k \in Entries : AliasEquals(k, q)}
            bySubstring == {k \in Entries : SubstringRelated(k, q)}
        IN  /\ byName # {} => returned.zone = Earliest(byName)
            /\ (byName = {} /\ byAlias # {}) => returned.zone = Earliest(byAlias)
            /\ (byName = {} /\ byAlias = {} /\ bySubstring # {})
                   => returned.zone = Earliest(bySubstring)
            /\ (byName = {} /\ byAlias = {} /\ bySubstring = {}) => returned.zone = 0

RECURSIVE WithoutOuterSpaces(_)
WithoutOuterSpaces(q) ==
    IF q = <<>> THEN q
    ELSE IF Head(q) = " " THEN WithoutOuterSpaces(Tail(q))
    ELSE IF q[Len(q)] = " " THEN WithoutOuterSpaces(SubSeq(q, 1, Len(q) - 1))
    ELSE q

\* C15 amended: for a non-empty query, the precedence of C15 holds of the
\* query with its surrounding whitespace removed: name equal ignoring case;
\* else first entry with an equal alias; else first entry whose name or
\* alias contains the trimmed query or is contained in it; else none.
C15_FindZonePrecedenceTrimmed ==
    (called /\ args.zoneName # <<>>) =>
        LET q == WithoutOuterSpaces(args.zoneName)
            byName == {k \in Entries : NameEquals(k, q)}
            byAlias == {k \in Entries : AliasEquals(k, q)}
            bySubstring == {k \in Entries : SubstringRelated(k, q)}
        IN  /\ byName # {} => returned.zone = Earliest(byName)
            /\ (byName = {} /\ byAlias # {}) => returned.zone = Earliest(byAlias)
            /\ (byName = {} /\ byAlias = {} /\ bySubstring # {})
                   => returned.zone = Earliest(bySubstring)
            /\ (byName = {} /\ byAlias = {} /\ bySubstring = {}) => returned.zone = 0

\* C15 witness: a query with surrounding whitespace that, trimmed, equals an
\* alias of a later entry while an earlier entry is related to it by
\* substring only; the later entry is returned.
C15_Witness ==
    /\ called
    /\ \E k, j \in Entries :
           /\ j < k
           /\ args.zoneName # WithoutOuterSpaces(args.zoneName)
           /\ AliasEquals(k, WithoutOuterSpaces(args.zoneName))
           /\ SubstringRelated(j, WithoutOuterSpaces(args.zoneName))
           /\ ~AliasEquals(j, WithoutOuterSpaces(args.zoneName))
           /\ \A i \in Entries : ~NameEquals(i, WithoutOuterSpaces(args.zoneName))
           /\ returned.zone = k

\* ------------------------------------------------------------------------
\* Specification SpecAnalyze: analyzeZones applied to a list of listings
\* ------------------------------------------------------------------------
InitAnalyze ==
    /\ args \in {[properties |-> l] : l \in SeqsUpTo(AnalysisSamples, MaxAnalyzed)}
    /\ returned = <<>>
    /\ called = FALSE
    /\ DiscIdle
    /\ DedupIdle
    /\ AppIdle
    /\ ExtractIdle

AnalyzeZones ==
    /\ ~called
    /\ returned' = [zones |-> analyzeZones(args.properties)]
    /\ called' = TRUE
    /\ UNCHANGED <<args, discVars, dedupVars, appVars, extractVars>>

NextAnalyze == AnalyzeZones

SpecAnalyze == InitAnalyze /\ [][NextAnalyze]_vars

\* ------------------------------------------------------------------------
\* Claims about analyzeZones
\* ------------------------------------------------------------------------
\* C16: the price score of a zone is 100 when its average price per m2 is
\* below 90% of the market baseline (the mean of all zones' averages), 70
\* when it is nonzero and between 90% and 110% of the baseline, 40
\* otherwise; a zone with no price data (average 0) gets 40 and a nonzero
\* zone below 90% of the baseline gets 100.
C16_PriceScoreAsClaimed ==
    called =>
        \A k \in DOMAIN returned.zones :
            LET z == returned.zones[k]
                all == returned.zones
            IN  z.priceScore =
                    IF z.perM2Sum = 0 THEN 40
                    ELSE IF BelowMarket(z, all, 90) THEN 100
                    ELSE IF BelowMarket(z, all, 110) THEN 70
                    ELSE 40

ClaimedTier(z) ==
    LET tenTimesCompositeTimesCount ==
            4 * z.priceScore * z.propertyCount
                + 4 * z.totalQuality
                + 2 * (IF z.propertyCount >= 10 THEN 100 ELSE 10 * z.propertyCount)
                    * z.propertyCount
    IN  IF tenTimesCompositeTimesCount >= 700 * z.propertyCount THEN "HIGH"
        ELSE IF tenTimesCompositeTimesCount >= 450 * z.propertyCount THEN "MEDIUM"
        ELSE "LOW"

TierRank(level) == CASE level = "HIGH" -> 3 [] level = "MEDIUM" -> 2 [] level = "LOW" -> 1

\* C18: in the returned list every HIGH zone precedes every MEDIUM zone and
\* every MEDIUM zone every LOW zone; inside a tier the average quality
\* never increases; each listing with a non-empty zone is counted in
\* exactly one zone, the one named by its trimmed zone name.
C18_ZonesRankedAndListingsCountedOnce ==
    called =>
        LET zones == returned.zones
            list == args.properties
        IN  /\ \A i, j \in DOMAIN zones :
                   i < j =>
                       /\ TierRank(zones[i].recommendationLevel)
                              >= TierRank(zones[j].recommendationLevel)
                       /\ zones[i].recommendationLevel = zones[j].recommendationLevel
                              => zones[i].totalQuality * zones[j].propertyCount
                                     >= zones[j].totalQuality * zones[i].propertyCount
            /\ \A i, j \in DOMAIN zones : i # j => zones[i].name # zones[j].name
            /\ \A k \in DOMAIN zones :
                   zones[k].propertyCount =
                       Cardinality({n \in DOMAIN list :
                           /\ list[n].zone # <<>>
                           /\ WithoutOuterSpaces(list[n].zone) = zones[k].name})
            /\ \A n \in DOMAIN list :
                   list[n].zone # <<>> =>
                       \E k \in DOMAIN zones :
                           zones[k].name = WithoutOuterSpaces(list[n].zone)

\* C18 witness: two zones of different tiers, one of them holding a listing
\* whose zone name was written with a leading space.
C18_Witness ==
    /\ called
    /\ \E i, j \in DOMAIN returned.zones :
           /\ i < j
           /\ returned.zones[i].recommendationLevel = "HIGH"
           /\ returned.zones[j].recommendationLevel = "LOW"
    /\ \E n, m \in DOMAIN args.properties :
           /\ args.properties[n].zone = <<" ", "A">>
           /\ args.properties[m].zone = <<"A">>
    /\ \E k \in DOMAIN returned.zones :
           returned.zones[k].name = <<"A">> /\ returned.zones[k].propertyCount = 2

\* ---------------------------------------------------------------------------
\* priceEstimator (src/unnamed/part_002, lines 209-448).
\* A listing is [id, type, zone, areaM2, bedrooms, bathrooms, price,
\* pricePerM2]; an optional number that is absent is 0 and an absent type or
\* zone is "".  A similarity is the exact fraction score / weights, both in
\* whole units, so that 0.3 is score * 1000 = 300 * weights.
\* ---------------------------------------------------------------------------

\* Longest corpus tail drawn freely from the sample listings.
MaxTail == 2

RECURSIVE Gcd(_, _)
\* Greatest common divisor, used to keep the fractions in lowest terms.
Gcd(a, b) == IF b = 0 THEN a ELSE Gcd(b, a % b)

Lcm(a, b) == (a \div Gcd(a, b)) * b

Max(a, b) == IF a >= b THEN a ELSE b

\* Thousandths earned by each attribute (lines 228-261).
typePoints(prop1, prop2) == IF prop1.type = prop2.type THEN 300 ELSE 0

zonePoints(prop1, prop2) == IF prop1.zone = prop2.zone THEN 250 ELSE 0

bedroomPoints(prop1, prop2) ==
    IF prop1.bedrooms # 0 /\ prop2.bedrooms # 0
    THEN IF prop1.bedrooms = prop2.bedrooms THEN 150
         ELSE IF Abs(prop1.bedrooms - prop2.bedrooms) = 1 THEN 75 ELSE 0
    ELSE 0

bathroomPoints(prop1, prop2) ==
    IF prop1.bathrooms # 0 /\ prop2.bathrooms # 0 /\ prop1.bathrooms = prop2.bathrooms
    THEN 100 ELSE 0

\* max(0, 1 - |a1 - a2| / max(a1, a2)) is min / max; it is kept as the pair
\* of its numerator and denominator in lowest terms (0 / 1 when not applicable).
areaSimilarity(prop1, prop2) ==
    IF prop1.areaM2 # 0 /\ prop2.areaM2 # 0
    THEN LET lo == Min(prop1.areaM2, prop2.areaM2)
             hi == Max(prop1.areaM2, prop2.areaM2)
             g  == Gcd(hi, lo)
         IN  [num |-> lo \div g, den |-> hi \div g]
    ELSE [num |-> 0, den |-> 1]

\* calculateSimilarity: `weights` grows by every attribute's weight whether
\* or not the attribute was applicable, so it is always 1000 thousandths.
calculateSimilarity(prop1, prop2) ==
    LET area == areaSimilarity(prop1, prop2)
        points == typePoints(prop1, prop2) + zonePoints(prop1, prop2)
                  + bedroomPoints(prop1, prop2) + bathroomPoints(prop1, prop2)
        weights == 300 + 250 + 200 + 150 + 100
    IN  [score |-> points * area.den + 200 * area.num, weights |-> weights * area.den]

\* a >= b for two similarities.
SimilarityAtLeast(a, b) == a.score * b.weights >= b.score * a.weights

\* similarity >= minSimilarity, the latter in thousandths.
MeetsMinSimilarity(similarity, minSimilarity) ==
    similarity.score * 1000 >= minSimilarity * similarity.weights

\* Mutant of IsCandidate: the target itself is not skipped.
IsCandidateWithSelf(targetProperty, property) == property.price # 0

\* Lines 280-284: the two `continue` guards of findComparables.
IsCandidate(targetProperty, property) ==
    property.id # targetProperty.id /\ property.price # 0

RECURSIVE ComparableLoop(_, _, _, _)
\* Lines 279-291: the loop over allProperties, from index i on.
ComparableLoop(targetProperty, allProperties, minSimilarity, i) ==
    IF i > Len(allProperties) THEN <<>>
    ELSE LET property == allProperties[i]
             similarity == calculateSimilarity(targetProperty, property)
             rest == ComparableLoop(targetProperty, allProperties, minSimilarity, i + 1)
         IN  IF IsCandidate(targetProperty, property)
                /\ MeetsMinSimilarity(similarity, minSimilarity)
             THEN <<[property |-> property, similarity |-> similarity]>> \o rest
             ELSE rest

RECURSIVE InsertComparable(_, _)
\* Stable insertion for the comparator b.similarity - a.similarity: c goes
\* after every element whose similarity is at least its own.
InsertComparable(sorted, c) ==
    IF sorted = <<>> THEN <<c>>
    ELSE IF SimilarityAtLeast(Head(sorted).similarity, c.similarity)
         THEN <<Head(sorted)>> \o InsertComparable(Tail(sorted), c)
         ELSE <<c>> \o sorted

RECURSIVE SortComparables(_)
\* Line 294: comparables.sort(...), a stable sort.
SortComparables(comparables) ==
    IF comparables = <<>> THEN <<>>
    ELSE InsertComparable(SortComparables(SubSeq(comparables, 1, Len(comparables) - 1)),
                          comparables[Len(comparables)])

\* Mutant of findComparables: the list is not cut to `limit`.
findComparablesUnlimited(targetProperty, allProperties, minSimilarity, limit) ==
    SortComparables(ComparableLoop(targetProperty, allProperties, minSimilarity, 1))

\* findComparables(targetProperty, allProperties, minSimilarity, limit).
findComparables(targetProperty, allProperties, minSimilarity, limit) ==
    LET sorted == SortComparables(ComparableLoop(targetProperty, allProperties, minSimilarity, 1))
    IN  SubSeq(sorted, 1, Min(limit, Len(sorted)))

RECURSIVE WeightsLcm(_)
\* Common denominator of the similarities of a list of comparables.
WeightsLcm(comparables) ==
    IF comparables = <<>> THEN 1
    ELSE Lcm(Head(comparables).similarity.weights, WeightsLcm(Tail(comparables)))

\* A similarity in units of 1 / denominator.
ScaledSimilarity(c, denominator) ==
    c.similarity.score * (denominator \div c.similarity.weights)

RECURSIVE TotalWeight(_, _)
TotalWeight(comparables, denominator) ==
    IF comparables = <<>> THEN 0
    ELSE ScaledSimilarity(Head(comparables), denominator)
         + TotalWeight(Tail(comparables), denominator)

RECURSIVE WeightedPriceSum(_, _)
WeightedPriceSum(comparables, denominator) ==
    IF comparables = <<>> THEN 0
    ELSE Head(comparables).property.price * ScaledSimilarity(Head(comparables), denominator)
         + WeightedPriceSum(Tail(comparables), denominator)

\* calculateEstimatedPrice (lines 301-327).  estimatedPrice is
\* weightedPriceSum / totalWeight and confidence is
\* confidenceNum / confidenceDen, all kept as exact fractions.
calculateEstimatedPrice(comparables) ==
    LET n == Len(comparables)
        denominator == WeightsLcm(comparables)
        totalWeight == TotalWeight(comparables, denominator)
        countTenths == Min(10, n)
    IN  IF n = 0
        THEN [weightedPriceSum |-> 0, totalWeight |-> 0, confidenceNum |-> 0, confidenceDen |-> 1]
        ELSE [weightedPriceSum |-> IF totalWeight > 0
                                   THEN WeightedPriceSum(comparables, denominator) ELSE 0,
              totalWeight   |-> totalWeight,
              confidenceNum |-> 5 * countTenths * n * denominator + 50 * totalWeight,
              confidenceDen |-> n * denominator]

\* Mutant of determinePriceIndicator: a price above the estimate is never
\* reported.
determinePriceIndicatorNeverAbove(actualPrice, weightedPriceSum, totalWeight, rounding) ==
    IF weightedPriceSum = 0 \/ totalWeight = 0 THEN "FAIR"
    ELSE IF actualPrice * totalWeight * 10 <= 9 * weightedPriceSum THEN "BELOW_MARKET"
    ELSE "FAIR"

\* determinePriceIndicator (lines 332-346).  estimatedPrice is the double
\* nearest the floating-point evaluation of weightedPriceSum / totalWeight;
\* `rounding` is the sign of its error against the exact fraction (-1 below,
\* 0 equal, 1 above).  The error only matters when actualPrice over the exact
\* fraction is exactly 0.9 or 1.1: an estimate rounded down then gives a ratio
\* above the threshold and one rounded up a ratio below it.
determinePriceIndicator(actualPrice, weightedPriceSum, totalWeight, rounding) ==
    LET ratioTimesTen == actualPrice * totalWeight * 10
    IN  IF weightedPriceSum = 0 \/ totalWeight = 0 THEN "FAIR"
        ELSE IF ratioTimesTen < 9 * weightedPriceSum THEN "BELOW_MARKET"
        ELSE IF ratioTimesTen = 9 * weightedPriceSum
             THEN IF rounding < 0 THEN "FAIR" ELSE "BELOW_MARKET"
        ELSE IF ratioTimesTen > 11 * weightedPriceSum THEN "ABOVE_MARKET"
        ELSE IF ratioTimesTen = 11 * weightedPriceSum
             THEN IF rounding > 0 THEN "FAIR" ELSE "ABOVE_MARKET"
        ELSE "FAIR"

\* The signs the rounding error of estimatedPrice can take: the arithmetic is
\* exact when every similarity is 1 and the average is a whole number.
RoundingOutcomes(property, allProperties) ==
    LET comparables == findComparables(property, allProperties, 300, 10)
        estimate == calculateEstimatedPrice(comparables)
    IN  IF /\ \A k \in DOMAIN comparables :
                  comparables[k].similarity.score = comparables[k].similarity.weights
           /\ estimate.totalWeight > 0
           /\ estimate.weightedPriceSum % estimate.totalWeight = 0
        THEN {0}
        ELSE {-1, 0, 1}

\* Lines 371-373: the priced listings of the target's zone, the target excluded.
ZoneProperties(property, allProperties) ==
    SelectSeq(allProperties,
              LAMBDA p : p.zone = property.zone /\ p.price # 0 /\ p.id # property.id)

RECURSIVE SumOf(_, _)
\* reduce((sum, p) => sum + (p.field || 0), 0)
SumOf(list, field) ==
    IF list = <<>> THEN 0 ELSE Head(list)[field] + SumOf(Tail(list), field)

NoEstimate == [isNull |-> TRUE]

\* estimatePrice(property, allProperties) (lines 351-403); `rounding` is the
\* sign of the rounding error of the estimated price.
estimatePrice(property, allProperties, rounding) ==
    IF property.type = "" \/ property.zone = "" THEN NoEstimate
    ELSE LET comparables == findComparables(property, allProperties, 300, 10)
             estimate == calculateEstimatedPrice(comparables)
             zoneProperties == ZoneProperties(property, allProperties)
             withPerM2 == SelectSeq(zoneProperties, LAMBDA p : p.pricePerM2 # 0)
         IN  IF Len(comparables) = 0 THEN NoEstimate
             ELSE [isNull |-> FALSE,
                   property |-> property,
                   comparables |-> comparables,
                   weightedPriceSum |-> estimate.weightedPriceSum,
                   totalWeight |-> estimate.totalWeight,
                   perM2Divisor |-> IF property.areaM2 # 0 /\ estimate.weightedPriceSum > 0
                                    THEN property.areaM2 ELSE 0,
                   zonalPriceSum |-> SumOf(zoneProperties, "price"),
                   zonalPriceCount |-> Len(zoneProperties),
                   zonalPerM2Sum |-> SumOf(withPerM2, "pricePerM2"),
                   zonalPerM2Count |-> Len(withPerM2),
                   indicator |-> IF property.price # 0
                                 THEN determinePriceIndicator(property.price,
                                          estimate.weightedPriceSum, estimate.totalWeight,
                                          rounding)
                                 ELSE "FAIR",
                   rounding |-> rounding,
                   confidenceNum |-> estimate.confidenceNum,
                   confidenceDen |-> estimate.confidenceDen,
                   comparableCount |-> Len(comparables)]

\* ---------------------------------------------------------------------------
\* Inputs of the price estimator.
\* ---------------------------------------------------------------------------

Estimable(id, type, zone, areaM2, bedrooms, bathrooms, price) ==
    [id |-> id, type |-> type, zone |-> zone, areaM2 |-> areaM2,
     bedrooms |-> bedrooms, bathrooms |-> bathrooms, price |-> price,
     pricePerM2 |-> IF price # 0 /\ areaM2 # 0 THEN price \div areaM2 ELSE 0]

\* Listings for the pairwise similarity: every combination of a present or
\* absent category, zone, area, bedroom count and bathroom count.
SimilaritySamples ==
    { Estimable(0, t, z, a, bd, bt, 100) :
        t \in {"", "Apartamento", "Casa"}, z \in {"", "Pampatar", "Porlamar"},
        a \in {0, 100, 200}, bd \in {0, 2, 3}, bt \in {0, 2} }

\* Listings of a corpus, before their ids are assigned: similarity to the
\* first one is 1, 0.55, 0.475, 0.175, 1 (unpriced), 0.3 and 0.45.
EstimatorSamples ==
    << Estimable(0, "Apartamento", "Pampatar", 100, 3, 2, 100),
       Estimable(0, "Apartamento", "Pampatar", 0, 0, 0, 80),
       Estimable(0, "Apartamento", "Porlamar", 200, 2, 1, 120),
       Estimable(0, "Casa", "Porlamar", 200, 4, 1, 90),
       Estimable(0, "Apartamento", "Pampatar", 100, 3, 2, 0),
       Estimable(0, "Apartamento", "Porlamar", 0, 0, 0, 70),
       Estimable(0, "", "", 100, 3, 2, 60) >>

\* A corpus already holding ten listings, or none.
CorpusBlocks == { <<>>, <<2, 3, 2, 3, 2, 3, 2, 3, 2, 3>> }

\* The corpus of sample numbers `kinds`, listing i carrying id i.
CorpusOf(kinds) ==
    [i \in 1..Len(kinds) |-> [EstimatorSamples[kinds[i]] EXCEPT !.id = i]]

Corpora ==
    { CorpusOf(block \o tail) :
        block \in CorpusBlocks, tail \in SeqsUpTo(DOMAIN EstimatorSamples, MaxTail) }

\* estimatePrices passes a member of the corpus; a caller may also pass a
\* listing that is not in it (id 0).
TargetsOf(corpus) ==
    Range(corpus) \cup { EstimatorSamples[k] : k \in {1, 4, 7} }

\* ---------------------------------------------------------------------------
\* SpecSimilarity: calculateSimilarity on a pair of listings.
\* ---------------------------------------------------------------------------

InitSimilarity ==
    /\ DiscIdle /\ DedupIdle /\ AppIdle /\ ExtractIdle
    /\ args \in [prop1 : SimilaritySamples, prop2 : SimilaritySamples]
    /\ returned = <<>>
    /\ called = FALSE

CalculateSimilarity ==
    /\ ~called
    /\ returned' = calculateSimilarity(args.prop1, args.prop2)
    /\ called' = TRUE
    /\ UNCHANGED <<args, discVars, dedupVars, appVars, extractVars>>

NextSimilarity == CalculateSimilarity

SpecSimilarity == InitSimilarity /\ [][NextSimilarity]_vars

\* ---------------------------------------------------------------------------
\* SpecEstimate: estimatePrice on a target and a corpus.
\* ---------------------------------------------------------------------------

InitEstimate ==
    /\ DiscIdle /\ DedupIdle /\ AppIdle /\ ExtractIdle
    /\ \E corpus \in Corpora : \E target \in TargetsOf(corpus) :
           args = [property |-> target, allProperties |-> corpus]
    /\ returned = <<>>
    /\ called = FALSE

EstimatePrice ==
    /\ ~called
    /\ \E rounding \in RoundingOutcomes(args.property, args.allProperties) :
           returned' = estimatePrice(args.property, args.allProperties, rounding)
    /\ called' = TRUE
    /\ UNCHANGED <<args, discVars, dedupVars, appVars, extractVars>>

NextEstimate == EstimatePrice

SpecEstimate == InitEstimate /\ [][NextEstimate]_vars

\* ---------------------------------------------------------------------------
\* Claims C19 and C20: the similarity and the comparable set.
\* ---------------------------------------------------------------------------

\* Thousandths of weight of the attributes that both listings have.
ApplicableWeights(prop1, prop2) ==
    (IF prop1.type # "" /\ prop2.type # "" THEN 300 ELSE 0)
    + (IF prop1.zone # "" /\ prop2.zone # "" THEN 250 ELSE 0)
    + (IF prop1.areaM2 # 0 /\ prop2.areaM2 # 0 THEN 200 ELSE 0)
    + (IF prop1.bedrooms # 0 /\ prop2.bedrooms # 0 THEN 150 ELSE 0)
    + (IF prop1.bathrooms # 0 /\ prop2.bathrooms # 0 THEN 100 ELSE 0)

\* Thousandths earned on the attributes that both listings have, other than
\* the area.
EarnedPoints(prop1, prop2) ==
    (IF prop1.type # "" /\ prop2.type # "" THEN typePoints(prop1, prop2) ELSE 0)
    + (IF prop1.zone # "" /\ prop2.zone # "" THEN zonePoints(prop1, prop2) ELSE 0)
    + bedroomPoints(prop1, prop2) + bathroomPoints(prop1, prop2)

\* C19: calculateSimilarity is the sum of the weights earned (category 0.30,
\* zone 0.25, area closeness 0.20, bedrooms 0.15 with half credit for
\* off-by-one, bathrooms 0.10) divided by the sum of the weights of the
\* attributes both listings have, an attribute missing on either side being
\* left out of the denominator.
C19_SimilarityOverApplicableWeights ==
    called =>
        LET prop1 == args.prop1
            prop2 == args.prop2
            area == areaSimilarity(prop1, prop2)
            applicable == ApplicableWeights(prop1, prop2)
            earned == EarnedPoints(prop1, prop2) * area.den + 200 * area.num
        IN  IF applicable = 0 THEN returned.score = 0
            ELSE returned.score * applicable * area.den = earned * returned.weights

\* The comparable set of the call, with the defaults estimatePrice uses.
ComparableSet == findComparables(args.property, args.allProperties, 300, 10)

\* Listing i of the corpus may be a comparable of the target: it is another
\* listing, it has a price and its similarity to the target is at least 0.3.
Eligible(i) ==
    LET property == args.allProperties[i]
        similarity == calculateSimilarity(args.property, property)
    IN  /\ property.id # args.property.id
        /\ property.price # 0
        /\ similarity.score * 10 >= 3 * similarity.weights

EligibleListings == {i \in DOMAIN args.allProperties : Eligible(i)}

\* The corpus positions of the listings in the comparable set.
Included == {i \in DOMAIN args.allProperties :
                \E k \in DOMAIN ComparableSet : ComparableSet[k].property = args.allProperties[i]}

\* C20: the comparable set used by estimatePrice contains only listings other
\* than the target that have a price and similarity >= 0.3 to the target; it
\* holds at most 10 of them (the 10 best when there are more), sorted by
\* non-increasing similarity, and no excluded eligible listing has a higher
\* similarity than an included one.  estimatePrice returns none exactly when
\* the target lacks a category or a zone, or when this set is empty.
C20_ComparableSetAndNone ==
    called =>
        /\ Included \subseteq EligibleListings
        /\ \A k \in DOMAIN ComparableSet :
               /\ \E i \in EligibleListings : ComparableSet[k].property = args.allProperties[i]
               /\ ComparableSet[k].similarity =
                      calculateSimilarity(args.property, ComparableSet[k].property)
        /\ \A j, k \in DOMAIN ComparableSet :
               j # k => ComparableSet[j].property.id # ComparableSet[k].property.id
        /\ Len(ComparableSet) = Min(10, Cardinality(EligibleListings))
        /\ \A k \in 1..(Len(ComparableSet) - 1) :
               ComparableSet[k].similarity.score * ComparableSet[k + 1].similarity.weights
                   >= ComparableSet[k + 1].similarity.score * ComparableSet[k].similarity.weights
        /\ \A i \in EligibleListings \ Included : \A k \in DOMAIN ComparableSet :
               LET out == calculateSimilarity(args.property, args.allProperties[i])
               IN  out.score * ComparableSet[k].similarity.weights
                       <= ComparableSet[k].similarity.score * out.weights
        /\ returned.isNull <=> (\/ args.property.type = ""
                                \/ args.property.zone = ""
                                \/ ComparableSet = <<>>)
        /\ ~returned.isNull => returned.comparables = ComparableSet

\* A priced target that is in the corpus, with more than 10 eligible listings:
\* the set holds 10, the target is not one of them and an eligible listing is
\* left out.
C20_Witness ==
    /\ called
    /\ ~returned.isNull
    /\ args.property.price # 0
    /\ \E i \in DOMAIN args.allProperties : args.allProperties[i] = args.property
    /\ returned.comparableCount = 10
    /\ EligibleListings \ Included # {}

\* ---------------------------------------------------------------------------
\* Claim C21: the fairness indicator.
\* ---------------------------------------------------------------------------

\* actualPrice / estimatedPrice <= 0.90 on the estimated price of the
\* estimate: the ratio to the exact fraction is below 0.9, or it is 0.9 and
\* the estimated price is not rounded below the fraction.
RatioAtMostNineTenths ==
    LET lhs == returned.property.price * returned.totalWeight * 10
        rhs == 9 * returned.weightedPriceSum
    IN  lhs < rhs \/ (lhs = rhs /\ returned.rounding >= 0)

\* actualPrice / estimatedPrice >= 1.10, likewise.
RatioAtLeastElevenTenths ==
    LET lhs == returned.property.price * returned.totalWeight * 10
        rhs == 11 * returned.weightedPriceSum
    IN  lhs > rhs \/ (lhs = rhs /\ returned.rounding <= 0)

\* C21: the indicator of an estimate is below-market when actual price /
\* estimated price <= 0.90, above-market when the ratio >= 1.10 and fair
\* otherwise; it is fair whenever the listing has no price or the estimated
\* price is 0.
C21_IndicatorFromRatio ==
    (called /\ ~returned.isNull) =>
        IF returned.property.price = 0 \/ returned.weightedPriceSum = 0
        THEN returned.indicator = "FAIR"
        ELSE /\ RatioAtMostNineTenths => returned.indicator = "BELOW_MARKET"
             /\ RatioAtLeastElevenTenths => returned.indicator = "ABOVE_MARKET"
             /\ (~RatioAtMostNineTenths /\ ~RatioAtLeastElevenTenths)
                    => returned.indicator = "FAIR"

\* A priced listing whose price is at least 10% above its estimate.
C21_Witness ==
    /\ called
    /\ ~returned.isNull
    /\ returned.property.price # 0
    /\ RatioAtLeastElevenTenths
    /\ returned.indicator = "ABOVE_MARKET"

\* ---------------------------------------------------------------------------
\* Claim C29: the numbers of an estimate.
\* ---------------------------------------------------------------------------

\* Prices of the comparables an estimate used.
ComparablePrices == {returned.comparables[k].property.price : k \in DOMAIN returned.comparables}

LowestPrice == CHOOSE p \in ComparablePrices : \A q \in ComparablePrices : p <= q

HighestPrice == CHOOSE p \in ComparablePrices : \A q \in ComparablePrices : p >= q

CountAndConfidenceInRange ==
    /\ returned.comparableCount \in 1..10
    /\ returned.comparableCount = Len(returned.comparables)
    /\ returned.confidenceNum >= 0
    /\ returned.confidenceNum <= 100 * returned.confidenceDen

\* C29 as stated: every estimate has comparableCount between 1 and 10, an
\* estimated price that is greater than 0 and lies between the lowest and the
\* highest price of the comparables used, and a confidence in [0, 100].  The
\* estimated price is the returned double: the exact fraction with its
\* rounding error.
C29_EstimateBetweenComparablePrices ==
    (called /\ ~returned.isNull) =>
        /\ CountAndConfidenceInRange
        /\ returned.weightedPriceSum > 0
        /\ \/ returned.weightedPriceSum > LowestPrice * returned.totalWeight
           \/ /\ returned.weightedPriceSum = LowestPrice * returned.totalWeight
              /\ returned.rounding >= 0
        /\ \/ returned.weightedPriceSum < HighestPrice * returned.totalWeight
           \/ /\ returned.weightedPriceSum = HighestPrice * returned.totalWeight
              /\ returned.rounding <= 0

\* C29, amended: every estimate has comparableCount between 1 and 10 and a
\* confidence in [0, 100], and the similarity-weighted average of the
\* comparables' prices, which the estimated price equals up to floating-point
\* rounding, is greater than 0 and lies between their lowest and highest price.
C29_WeightedAverageBetweenComparablePrices ==
    (called /\ ~returned.isNull) =>
        /\ CountAndConfidenceInRange
        /\ returned.totalWeight > 0
        /\ returned.weightedPriceSum > 0
        /\ returned.weightedPriceSum >= LowestPrice * returned.totalWeight
        /\ returned.weightedPriceSum <= HighestPrice * returned.totalWeight

\* An estimate from several comparables of different prices whose estimated
\* price is not the exact average.
C29_Witness ==
    /\ called
    /\ ~returned.isNull
    /\ returned.comparableCount >= 2
    /\ LowestPrice < HighestPrice
    /\ returned.rounding # 0
    /\ returned.weightedPriceSum > LowestPrice * returned.totalWeight
    /\ returned.weightedPriceSum < HighestPrice * returned.totalWeight

\* ---------------------------------------------------------------------------
\* Claim C30: empty and whitespace-only zone names.
\* ---------------------------------------------------------------------------

\* Empty, or nothing but whitespace.
IsBlank(zoneName) == \A i \in DOMAIN zoneName : IsSpace(zoneName[i])

\* C30: findZoneByName returns no entry for a zone name that is empty or
\* consists only of whitespace, so validateAndFixCoordinates with no valid
\* existing coordinates and such a name returns null instead of the
\* coordinates of a zone.
C30_BlankZoneNameFindsNothing ==
    (called /\ IsBlank(args.zoneName)) =>
        /\ returned.zone = 0
        /\ \A offsetLat, offsetLng \in ZoneOffsets :
               ~validateAndFixCoordinates(NoCoordinates, args.zoneName,
                                          offsetLat, offsetLng).found

\* ---------------------------------------------------------------------------
\* The batch loops: enrichProperties (geminiService.ts 454-482),
\* geocodeProperties (geocodingService.ts 197-212) and processImport
\* (src/unnamed/part_002 112-205).
\* `args` is the call: the function and its input list; an element is its id
\* and what the awaited calls do with it.  Until the function returns,
\* `returned` is the state of its loop: the index i of the next element, the
\* ids visited so far and the locals of the function.  `called` is set when
\* the function returns or an exception leaves it.
\* ---------------------------------------------------------------------------

\* Longest input list of a batch loop.
MaxItems == 3

\* enrichProperty resolves to a property, resolves to null, or rejects.
EnrichOutcomes == {"property", "null", "throws"}

\* geocodeProperty resolves to the property with coordinates, or rejects.
GeocodeOutcomes == {"geocoded", "throws"}

\* A row of processImport: its description is shorter than 10 characters
\* (line 133); mapRowToPartialProperty or an awaited call throws (line 191);
\* enrichProperty returns null (line 185); the final coordinates are missing
\* or outside the island (line 180); or the row is accepted (line 174).
ImportOutcomes == {"short", "throws", "null", "badCoordinates", "accepted"}

OutcomesOf(function) ==
    CASE function = "enrichProperties" -> EnrichOutcomes
      [] function = "geocodeProperties" -> GeocodeOutcomes
      [] function = "processImport" -> ImportOutcomes

\* The input lists of length n: element k has id k.
ItemLists(function, n) ==
    { [k \in 1..n |-> [id |-> k, outcome |-> o[k]]] : o \in [1..n -> OutcomesOf(function)] }

CallsOf(function) ==
    { [function |-> function, items |-> l] :
        l \in UNION {ItemLists(function, n) : n \in 0..MaxItems} }

BatchCalls ==
    CallsOf("enrichProperties") \cup CallsOf("geocodeProperties") \cup CallsOf("processImport")

\* The locals at the top of each function.
LoopStart(call) ==
    CASE call.function = "enrichProperties" ->
             [i |-> 1, visited |-> <<>>, aborted |-> FALSE,
              enriched |-> <<>>, approved |-> 0, rejected |-> 0]
      [] call.function = "geocodeProperties" ->
             [i |-> 1, visited |-> <<>>, aborted |-> FALSE, geocoded |-> <<>>]
      [] call.function = "processImport" ->
             [i |-> 1, visited |-> <<>>, aborted |-> FALSE,
              total |-> Len(call.items), success |-> 0, failed |-> 0,
              properties |-> <<>>, errors |-> <<>>,
              processedCount |-> 0, progress |-> <<>>]

\* The loop moves to the next element.
Visit(loop, item) ==
    [loop EXCEPT !.i = @ + 1, !.visited = Append(@, item.id)]

\* Mutant of enrichIteration: the loop body has no try/catch.
enrichIterationUncaught(loop, item) ==
    CASE item.outcome = "property" ->
             [Visit(loop, item) EXCEPT !.enriched = Append(@, item.id), !.approved = @ + 1]
      [] item.outcome = "null" -> [Visit(loop, item) EXCEPT !.rejected = @ + 1]
      [] item.outcome = "throws" -> [Visit(loop, item) EXCEPT !.aborted = TRUE]

\* One iteration of enrichProperties (lines 463-478).
enrichIteration(loop, item) ==
    CASE item.outcome = "property" ->
             [Visit(loop, item) EXCEPT !.enriched = Append(@, item.id), !.approved = @ + 1]
      [] item.outcome = "null" -> [Visit(loop, item) EXCEPT !.rejected = @ + 1]
      [] item.outcome = "throws" -> [Visit(loop, item) EXCEPT !.rejected = @ + 1]

\* One iteration of geocodeProperties (lines 200-209): on a rejection the
\* property is pushed as it came.
geocodeIteration(loop, item) ==
    [Visit(loop, item) EXCEPT
        !.geocoded = Append(@, [id |-> item.id, geocoded |-> item.outcome = "geocoded"])]

\* Lines 197-198 of processImport: the count and the progress callback.
ReportProgress(loop) ==
    [loop EXCEPT !.processedCount = @ + 1,
                 !.progress = Append(@, [current |-> loop.processedCount + 1,
                                         total |-> loop.total])]

\* One iteration of processImport (lines 124-202).
importIteration(loop, item) ==
    CASE item.outcome = "short" ->
             [Visit(loop, item) EXCEPT !.failed = @ + 1]
      [] item.outcome = "accepted" ->
             ReportProgress([Visit(loop, item) EXCEPT !.properties = Append(@, item.id),
                                                      !.success = @ + 1])
      [] OTHER ->
             ReportProgress([Visit(loop, item) EXCEPT !.failed = @ + 1,
                                                      !.errors = Append(@, item.id)])

\* ---------------------------------------------------------------------------
\* SpecBatch: one call of a batch loop, one iteration per step.
\* ---------------------------------------------------------------------------

InitBatch ==
    /\ DiscIdle /\ DedupIdle /\ AppIdle /\ ExtractIdle
    /\ args \in BatchCalls
    /\ returned = LoopStart(args)
    /\ called = FALSE

InLoop(function) ==
    /\ ~called
    /\ args.function = function
    /\ ~returned.aborted
    /\ returned.i <= Len(args.items)

EnrichIteration ==
    /\ InLoop("enrichProperties")
    /\ returned' = enrichIteration(returned, args.items[returned.i])
    /\ UNCHANGED <<args, called, discVars, dedupVars, appVars, extractVars>>

GeocodeIteration ==
    /\ InLoop("geocodeProperties")
    /\ returned' = geocodeIteration(returned, args.items[returned.i])
    /\ UNCHANGED <<args, called, discVars, dedupVars, appVars, extractVars>>

ImportIteration ==
    /\ InLoop("processImport")
    /\ returned' = importIteration(returned, args.items[returned.i])
    /\ UNCHANGED <<args, called, discVars, dedupVars, appVars, extractVars>>

\* The loop is over, or an exception left it: the call ends.
BatchReturn ==
    /\ ~called
    /\ returned.aborted \/ returned.i > Len(args.items)
    /\ called' = TRUE
    /\ UNCHANGED <<args, returned, discVars, dedupVars, appVars, extractVars>>

NextBatch == EnrichIteration \/ GeocodeIteration \/ ImportIteration \/ BatchReturn

SpecBatch == InitBatch /\ [][NextBatch]_vars

\* ---------------------------------------------------------------------------
\* Claims C22 and C27: the batch loops.
\* ---------------------------------------------------------------------------

RECURSIVE IdsWhere(_, _)
\* The ids of the elements whose outcome is in `outcomes`, in input order.
IdsWhere(items, outcomes) ==
    IF items = <<>> THEN <<>>
    ELSE (IF Head(items).outcome \in outcomes THEN <<Head(items).id>> ELSE <<>>)
         \o IdsWhere(Tail(items), outcomes)

\* The elements before index i.
Before(i) == SubSeq(args.items, 1, i - 1)

\* What a loop holds once the elements before index i have been processed.
LoopHolds(i) ==
    CASE args.function = "enrichProperties" ->
             /\ returned.enriched = IdsWhere(Before(i), {"property"})
             /\ returned.approved = Len(returned.enriched)
             /\ returned.rejected = Len(IdsWhere(Before(i), {"null", "throws"}))
      [] args.function = "geocodeProperties" ->
             /\ Len(returned.geocoded) = i - 1
             /\ \A k \in 1..(i - 1) :
                    returned.geocoded[k] =
                        [id |-> args.items[k].id,
                         geocoded |-> args.items[k].outcome = "geocoded"]
      [] args.function = "processImport" ->
             /\ returned.properties = IdsWhere(Before(i), {"accepted"})
             /\ returned.success = Len(returned.properties)
             /\ returned.failed = Len(IdsWhere(Before(i), ImportOutcomes \ {"accepted"}))

\* C22: a failure on one element never aborts a batch: enrichProperties,
\* geocodeProperties and processImport visit every element of their input in
\* arrival order, an exception or rejection on one element is recorded and
\* the following elements are still processed, and the results keep the
\* relative order of the inputs.
C22_BatchSurvivesElementFailure ==
    /\ ~returned.aborted
    /\ returned.i = Len(returned.visited) + 1
    /\ returned.visited = IdsWhere(Before(returned.i), OutcomesOf(args.function))
    /\ LoopHolds(returned.i)
    /\ called => returned.i = Len(args.items) + 1

\* enrichProperties has returned; an element threw and a later one is in
\* the result.
C22_Witness ==
    /\ called
    /\ args.function = "enrichProperties"
    /\ \E j, k \in DOMAIN args.items :
           /\ j < k
           /\ args.items[j].outcome = "throws"
           /\ args.items[k].outcome = "property"
           /\ \E n \in DOMAIN returned.enriched : returned.enriched[n] = args.items[k].id

\* C27: processImport reports progress for every row: the callback is called
\* once per input row with current = 1, 2, ..., total, so the last call has
\* current = total, whatever the mix of rows; on return success + failed =
\* total and properties holds exactly the success rows.
C27_ProgressForEveryRow ==
    (called /\ args.function = "processImport") =>
        /\ returned.progress =
               [k \in 1..returned.total |-> [current |-> k, total |-> returned.total]]
        /\ returned.success + returned.failed = returned.total
        /\ returned.properties = IdsWhere(args.items, {"accepted"})
        /\ returned.success = Len(returned.properties)

\* ---------------------------------------------------------------------------
\* Claim C23: the progress events of a run of runPropertyDiscovery.
\* ---------------------------------------------------------------------------

StageOrder ==
    [scraping |-> 1, extracting |-> 2, geocoding |-> 3, analyzing |-> 4, complete |-> 5]

IsTerminal(event) == event.stage \in {"complete", "error"}

\* C23: in every run of runPropertyDiscovery with a callback that does not
\* throw, the emitted progress events never go backwards in the stage order
\* scraping, extracting, geocoding, analyzing, complete, and their progress
\* values stay in 0..100 and never decrease before the terminal event;
\* exactly one terminal event is emitted - 'complete' with progress 100 when
\* the run returns, 'error' when it throws - and no event follows it.
C23_ProgressEventsOrdered ==
    /\ \A k \in DOMAIN progressLog :
           /\ progressLog[k].progress \in 0..100
           /\ progressLog[k].stage \in DOMAIN StageOrder \cup {"error"}
           /\ IsTerminal(progressLog[k]) => k = Len(progressLog)
    /\ \A j, k \in DOMAIN progressLog :
           (j < k /\ progressLog[k].stage # "error") =>
               /\ StageOrder[progressLog[j].stage] <= StageOrder[progressLog[k].stage]
               /\ progressLog[j].progress <= progressLog[k].progress
    /\ dStage = "returned" =>
           /\ progressLog # <<>>
           /\ progressLog[Len(progressLog)] = [stage |-> "complete", progress |-> 100]
    /\ dStage = "thrown" =>
           /\ progressLog # <<>>
           /\ progressLog[Len(progressLog)].stage = "error"
    /\ dStage \notin {"returned", "thrown"} =>
           \A k \in DOMAIN progressLog : ~IsTerminal(progressLog[k])

\* A run that went through every stage and returned.
C23_Witness ==
    /\ dStage = "returned"
    /\ analyzedProperties # <<>>
    /\ {progressLog[k].stage : k \in DOMAIN progressLog}
           = {"scraping", "extracting", "geocoding", "analyzing", "complete"}

\* ---------------------------------------------------------------------------
\* Claim C25: an approval made while a discovery pass is waiting.
\* ---------------------------------------------------------------------------

\* Entry k of the corpus found when the pass resumed was approved from the
\* queue after the pass captured its props.
ApprovedWhileWaiting(k) ==
    /\ \E q \in DOMAIN pendingQueue :
           /\ pendingQueue[q].id = cur.before[k].id
           /\ pendingQueue[q].queueStatus = "approved"
    /\ \A j \in DOMAIN cur.approved : cur.approved[j].id # cur.before[k].id

\* C25: no corpus update is lost between the discovery loop and the user: if
\* the user approves a queued property while a discovery pass is still
\* waiting for its results, then after that pass applies its sold/date
\* updates the approved property is still in the corpus.
C25_ApprovalSurvivesThePass ==
    cur.phase \in {"loop", "done"} =>
        \A k \in DOMAIN cur.before :
            ApprovedWhileWaiting(k) =>
                \E j \in DOMAIN properties : properties[j].id = cur.before[k].id

\* ---------------------------------------------------------------------------
\* Claim C24: what the map shows.
\* ---------------------------------------------------------------------------

\* An approve action was made on the property: App.handleApprove marked it,
\* or AutoDiscovery.handleApprove marked its queue entry.
WasApproved(p) ==
    \/ p.approvalStatus = "approved"
    \/ \E q \in DOMAIN pendingQueue :
           /\ pendingQueue[q].id = p.id
           /\ pendingQueue[q].queueStatus = "approved"

\* C24: only properties the user has approved appear on the map: a property
\* found by hashtag search, auto-discovery or file import is never in
\* filteredProperties before an approve action on it.
C24_OnlyApprovedOnTheMap ==
    \A k \in DOMAIN filteredProperties : WasApproved(filteredProperties[k])

\* ---------------------------------------------------------------------------
\* Claim C26: source URLs in the moderation queue.
\* ---------------------------------------------------------------------------

\* C26: the pending moderation queue never holds two entries with the same
\* instagramUrl, for any interleaving of discovery passes and user actions,
\* given that the effect starts a new pass whenever one of its dependencies
\* changes and does not cancel a pass already in flight.
C26_QueueUrlsUnique ==
    \A i, j \in DOMAIN pendingQueue :
        pendingQueue[i].instagramUrl = pendingQueue[j].instagramUrl => i = j

\* ---------------------------------------------------------------------------
\* scripts/daily-scraper.cjs: one run of the daily scraper.
\*
\* A CSV row and an Apify post are kept as their source URL ("" when the
\* field is missing) and what the caption gives: "short" (fewer than 20
\* characters), "noData" (extractPropertyData returns null) or "property".
\* extractPropertyData takes its coordinates from MARGARITA_ZONES or from the
\* island default, all inside MARGARITA_BOUNDS, so the isWithinMargarita test
\* of processApifyPosts never rejects.  Ids are `csv-`/`apify-` followed by
\* the time and a random suffix: fresh for every property.
\* ---------------------------------------------------------------------------
MaxRows == 2        \* CSV rows, and Apify posts, of one run
MaxExisting == 2    \* properties already in the output file

ScraperUrls == {"", "u1", "u2"}
CaptionKinds == {"short", "noData", "property"}

FreshIds ==
    [csv |-> <<"csv-1", "csv-2", "csv-3", "csv-4">>,
     apify |-> <<"apify-1", "apify-2", "apify-3", "apify-4">>,
     old |-> <<"old-1", "old-2", "old-3", "old-4">>]

ScrapedProperty(source, n, url) ==
    [id |-> FreshIds[source][n], instagramUrl |-> url, source |-> source,
     approvalStatus |-> "pending"]

\* processCSVRows: the for loop from row i on.
RECURSIVE CsvLoop(_, _, _)
CsvLoop(rows, i, scraped) ==
    IF i > Len(rows) THEN scraped
    ELSE IF rows[i].caption # "property" THEN CsvLoop(rows, i + 1, scraped)
    ELSE CsvLoop(rows, i + 1,
                 Append(scraped, ScrapedProperty("csv", i, rows[i].url)))

processCSVRows(rows) == CsvLoop(rows, 1, <<>>)

\* processApifyPosts: the for loop from post i on, with its seenUrls.
RECURSIVE ApifyLoop(_, _, _, _)
ApifyLoop(posts, i, seenUrls, scraped) ==
    IF i > Len(posts) THEN scraped
    ELSE IF posts[i].url \in seenUrls
         THEN ApifyLoop(posts, i + 1, seenUrls, scraped)
    ELSE IF posts[i].caption # "property"
         THEN ApifyLoop(posts, i + 1, seenUrls \cup {posts[i].url}, scraped)
    ELSE ApifyLoop(posts, i + 1, seenUrls \cup {posts[i].url},
                   Append(scraped,
                          ScrapedProperty("apify", i, posts[i].url)))

processApifyPosts(posts) == ApifyLoop(posts, 1, {}, <<>>)

\* p.instagramUrl || p.id
DuplicateKey(p) == IF p.instagramUrl # "" THEN p.instagramUrl ELSE p.id

\* main, after both sources: filter against the existing file and merge.
MergeProperties(existingProperties, newProperties) ==
    LET existingIds == {DuplicateKey(existingProperties[k]) :
                            k \in DOMAIN existingProperties}
        uniqueNew == SelectSeq(newProperties,
                               LAMBDA p : DuplicateKey(p) \notin existingIds)
    IN  existingProperties \o uniqueNew

ScraperRows == [url : ScraperUrls, caption : CaptionKinds]

ExistingFiles ==
    UNION { { [k \in 1..n |-> [ScrapedProperty("old", k, urls[k])
                                  EXCEPT !.approvalStatus = "approved"]] :
                urls \in [1..n -> ScraperUrls] } : n \in 0..MaxExisting }

RowLists == UNION { [1..n -> ScraperRows] : n \in 0..MaxRows }

\* ---------------------------------------------------------------------------
\* Specification SpecScraper: main() of the daily scraper, one step per
\* source and one for the merge and save.  `returned` holds main's locals
\* until the file is saved.
\* ---------------------------------------------------------------------------
InitScraper ==
    /\ DiscIdle /\ DedupIdle /\ AppIdle /\ ExtractIdle
    /\ args \in [existingProperties : ExistingFiles, csvRows : RowLists,
                 apifyPosts : RowLists]
    /\ returned = [stage |-> "loaded", newProperties |-> <<>>, saved |-> <<>>]
    /\ called = FALSE

\* SOURCE 1: the rows of the pending CSV files.
ScraperCsv ==
    /\ ~called
    /\ returned # <<>>
    /\ returned.stage = "loaded"
    /\ returned' = [returned EXCEPT
                      !.stage = "csv",
                      !.newProperties = @ \o processCSVRows(args.csvRows)]
    /\ UNCHANGED <<args, called, discVars, dedupVars, appVars, extractVars>>

\* SOURCE 2: the posts scrapeInstagram resolved with.
ScraperApify ==
    /\ ~called
    /\ returned # <<>>
    /\ returned.stage = "csv"
    /\ returned' = [returned EXCEPT
                      !.stage = "apify",
                      !.newProperties = @ \o processApifyPosts(args.apifyPosts)]
    /\ UNCHANGED <<args, called, discVars, dedupVars, appVars, extractVars>>

\* Filter duplicates, merge, saveProperties.
ScraperSave ==
    /\ ~called
    /\ returned # <<>>
    /\ returned.stage = "apify"
    /\ returned' = [returned EXCEPT
                      !.stage = "saved",
                      !.saved = MergeProperties(args.existingProperties,
                                                returned.newProperties)]
    /\ called' = TRUE
    /\ UNCHANGED <<args, discVars, dedupVars, appVars, extractVars>>

NextScraper ==
    \/ ScraperCsv
    \/ ScraperApify
    \/ ScraperSave

SpecScraper == InitScraper /\ [][NextScraper]_vars

\* ---------------------------------------------------------------------------
\* Claim C28: what a run of the daily scraper saves.
\* ---------------------------------------------------------------------------
UrlsUnique(list) ==
    \A i, j \in DOMAIN list :
        (list[i].instagramUrl # "" /\ list[i].instagramUrl = list[j].instagramUrl)
            => i = j

\* Every property of the existing file is kept unchanged and in order.
ScraperAppendOnly ==
    (called /\ returned.stage = "saved") =>
        /\ Len(returned.saved) >= Len(args.existingProperties)
        /\ SubSeq(returned.saved, 1, Len(args.existingProperties))
               = args.existingProperties

\* C28: a run of the daily scraper is append-only and keeps source URLs
\* unique: every property of the existing output file is kept unchanged and
\* in order, and if the existing file holds no two properties with the same
\* non-empty instagramUrl, neither does the file saved by the run, for every
\* mix of CSV rows and Apify posts of that run.
C28_AppendOnlyAndUrlsUnique ==
    (called /\ returned.stage = "saved") =>
        /\ ScraperAppendOnly
        /\ UrlsUnique(args.existingProperties) => UrlsUnique(returned.saved)

=============================================================================
